---- MODULE Spec2Model ----
(***************************************************************************)
(* Model of the security-code classification and price-resolution          *)
(* pipeline of MultiAssetOFX: routes.py (classify_security, fetch_prices,  *)
(* download_ofx) and services/price_fetcher.py (PriceFetcher).             *)
(*                                                                         *)
(* A Python str is a sequence of characters, each character a one-element  *)
(* TLA+ string.  Characters outside ASCII are written by their code point  *)
(* ("U+5E74"), and a fixed phrase of a message or of a page that the code  *)
(* only copies or compares as a whole is written as one symbol ("MSG_..."). *)
(* Python's None is the empty sequence None and a present value v is       *)
(* Some(v) == <<v>>.  A dict is a record; a key the code may leave out     *)
(* ("error") is a field that is absent from the record.                    *)
(***************************************************************************)
EXTENDS Integers, Sequences, FiniteSets, TLC

VARIABLES
    op,            \* entry point running: idle, classify, fetch_price, fetch_prices, download_ofx
    pc,            \* position inside the entry point
    fetcher,       \* the PriceFetcher instance: max_retries, retry_delay
    submitted,     \* the form: the date string and the securities string
    securities,    \* routes: the parsed list of codes
    target_date,   \* the target date
    idx,           \* routes: index of the code the loop is at (1-based)
    results,       \* fetch_prices: results; download_ofx: valid_results
    files,         \* download_ofx: the lists handed to generate_ofx, with the file suffix
    call,          \* the fetch_price frame: code, security_type, attempt
    ret,           \* what the last fetch_price / classify_security call gave back
    trace,         \* per attempt of the last fetch_price call: the adapter run, the
                   \* upstream requests it made, how it ended, the record it gave
                   \* back (if it returned), whether a sleep followed
    asked,         \* what the upstream gave to the adapter run that was followed
                   \* with its answers on record (NotAsked when none was)
    frames         \* the fetch_price frames of resolutions running at the same time
                   \* on the one fetcher, each with the upstream answers it was given

vars == <<op, pc, fetcher, submitted, securities, target_date, idx, results,
          files, call, ret, trace, asked, frames>>

(***************************************************************************)
(* Characters and strings                                                  *)
(***************************************************************************)
None == <<>>
Some(v) == <<v>>

AsciiDigits == {"0", "1", "2", "3", "4", "5", "6", "7", "8", "9"}
\* U+FF17 FULLWIDTH DIGIT SEVEN: a decimal digit (category Nd) outside ASCII
FullwidthSeven == "U+FF17"
\* U+00B2 SUPERSCRIPT TWO: str.isdigit() is true of it, int() rejects it
SuperscriptTwo == "U+00B2"
UpperLetters ==
    {"A", "B", "C", "D", "E", "F", "G", "H", "I", "J", "K", "L", "M",
     "N", "O", "P", "Q", "R", "S", "T", "U", "V", "W", "X", "Y", "Z"}
LowerLetters ==
    {"a", "b", "c", "d", "e", "f", "g", "h", "i", "j", "k", "l", "m",
     "n", "o", "p", "q", "r", "s", "t", "u", "v", "w", "x", "y", "z"}
LF == "LF"
Whitespace == {" ", LF, "TAB", "U+3000"}

LowerToUpper ==
    [c \in LowerLetters |->
        CASE c = "a" -> "A" [] c = "b" -> "B" [] c = "c" -> "C" [] c = "d" -> "D"
          [] c = "e" -> "E" [] c = "f" -> "F" [] c = "g" -> "G" [] c = "h" -> "H"
          [] c = "i" -> "I" [] c = "j" -> "J" [] c = "k" -> "K" [] c = "l" -> "L"
          [] c = "m" -> "M" [] c = "n" -> "N" [] c = "o" -> "O" [] c = "p" -> "P"
          [] c = "q" -> "Q" [] c = "r" -> "R" [] c = "s" -> "S" [] c = "t" -> "T"
          [] c = "u" -> "U" [] c = "v" -> "V" [] c = "w" -> "W" [] c = "x" -> "X"
          [] c = "y" -> "Y" [] OTHER -> "Z"]

\* str.upper()
Upper(s) == [i \in 1..Len(s) |-> IF s[i] \in LowerLetters THEN LowerToUpper[s[i]] ELSE s[i]]

\* str.strip()
RECURSIVE LStrip(_)
LStrip(s) == IF s # <<>> /\ Head(s) \in Whitespace THEN LStrip(Tail(s)) ELSE s
RECURSIVE RStrip(_)
RStrip(s) ==
    IF s # <<>> /\ s[Len(s)] \in Whitespace THEN RStrip(SubSeq(s, 1, Len(s) - 1)) ELSE s
Strip(s) == RStrip(LStrip(s))

\* str.replace(c, '') for a one-character c
RECURSIVE RemoveChar(_, _)
RemoveChar(s, c) ==
    IF s = <<>> THEN <<>>
    ELSE IF Head(s) = c THEN RemoveChar(Tail(s), c)
    ELSE <<Head(s)>> \o RemoveChar(Tail(s), c)

\* sub in s
Contains(s, sub) ==
    \E i \in 0..(Len(s) - Len(sub)) : SubSeq(s, i + 1, i + Len(sub)) = sub

\* ''.join(row)
RECURSIVE Join(_)
Join(row) == IF row = <<>> THEN <<>> ELSE Head(row) \o Join(Tail(row))

\* str.isdigit(): non-empty, every character a digit character
IsDigitStr(s) == s # <<>> /\ \A i \in 1..Len(s) : s[i] \in AsciiDigits \cup {FullwidthSeven, SuperscriptTwo}

DigitValue(c) ==
    CASE c = "0" -> 0 [] c = "1" -> 1 [] c = "2" -> 2 [] c = "3" -> 3 [] c = "4" -> 4
      [] c = "5" -> 5 [] c = "6" -> 6 [] c = "7" -> 7 [] c = "8" -> 8 [] c = "9" -> 9
      [] OTHER -> 7

\* int(s) accepts the decimal digits (ASCII or not) and raises ValueError otherwise
IntAccepts(s) == s # <<>> /\ \A i \in 1..Len(s) : s[i] \in AsciiDigits \cup {FullwidthSeven}
RECURSIVE IntOf(_)
IntOf(s) == IF s = <<>> THEN 0 ELSE 10 * IntOf(SubSeq(s, 1, Len(s) - 1)) + DigitValue(s[Len(s)])

DigitChar(d) ==
    CASE d = 0 -> "0" [] d = 1 -> "1" [] d = 2 -> "2" [] d = 3 -> "3" [] d = 4 -> "4"
      [] d = 5 -> "5" [] d = 6 -> "6" [] d = 7 -> "7" [] d = 8 -> "8" [] OTHER -> "9"

\* str(n) for n >= 0
RECURSIVE StrOfNat(_)
StrOfNat(n) == IF n < 10 THEN <<DigitChar(n)>> ELSE StrOfNat(n \div 10) \o <<DigitChar(n % 10)>>

\* '%02d' % n
Pad2(n) == IF n < 10 THEN <<"0">> \o StrOfNat(n) ELSE StrOfNat(n)

(***************************************************************************)
(* routes.py: classify_security                                            *)
(***************************************************************************)
\* re: \d in a str pattern matches every Unicode decimal digit
ReDigit(c) == c \in AsciiDigits \cup {FullwidthSeven}
\* re: [0-9A-Z]
ReAlnumUpper(c) == c \in AsciiDigits \cup UpperLetters
\* re.match(r'^...$', s): $ matches at the end of s and before a newline that
\* ends s, so the pattern between ^ and $ is tried on s and on s less that newline
ReUpToEnd(s) ==
    {s} \cup (IF s # <<>> /\ s[Len(s)] = LF THEN {SubSeq(s, 1, Len(s) - 1)} ELSE {})

\* faulty variant of JpStockBody: any capital letter is taken as the market suffix
JpStockBody_AnySuffix(s) ==
    /\ Len(s) = 6
    /\ \A i \in 1..4 : ReDigit(s[i])
    /\ s[5] = "."
    /\ s[6] \in UpperLetters

\* \d{4}\.(T|O|N|F|S)
JpStockBody(s) ==
    /\ Len(s) = 6
    /\ \A i \in 1..4 : ReDigit(s[i])
    /\ s[5] = "."
    /\ s[6] \in {"T", "O", "N", "F", "S"}
\* [0-9A-Z]{8}
\* faulty variant of AssocCodeBody: 12 characters are taken too
AssocCodeBody_OrTwelve(s) == Len(s) \in {8, 12} /\ \A i \in 1..Len(s) : ReAlnumUpper(s[i])

AssocCodeBody(s) == Len(s) = 8 /\ \A i \in 1..8 : ReAlnumUpper(s[i])
\* \d{6,8}
LegacyNumericBody(s) == Len(s) \in 6..8 /\ \A i \in 1..Len(s) : ReDigit(s[i])
\* [A-Z][A-Z0-9\.-]{0,9}
UsTickerBody(s) ==
    /\ Len(s) \in 1..10
    /\ s[1] \in UpperLetters
    /\ \A i \in 2..Len(s) : s[i] \in AsciiDigits \cup UpperLetters \cup {".", "-"}

\* faulty variant of classify_security: the US ticker rule is tried before the
\* mutual-fund rules
classify_security_UsFirst(code) ==
    IF \E b \in ReUpToEnd(code) : JpStockBody(b) THEN "JP_STOCK"
    ELSE IF \E b \in ReUpToEnd(code) : UsTickerBody(b) THEN "US_STOCK"
    ELSE IF \E b \in ReUpToEnd(code) : AssocCodeBody(b) THEN "JP_MUTUALFUND"
    ELSE IF \E b \in ReUpToEnd(code) : LegacyNumericBody(b) THEN "JP_MUTUALFUND"
    ELSE "INVALID"

classify_security(code) ==
    IF \E b \in ReUpToEnd(code) : JpStockBody(b) THEN "JP_STOCK"
    ELSE IF \E b \in ReUpToEnd(code) : AssocCodeBody(b) THEN "JP_MUTUALFUND"
    ELSE IF \E b \in ReUpToEnd(code) : LegacyNumericBody(b) THEN "JP_MUTUALFUND"
    ELSE IF \E b \in ReUpToEnd(code) : UsTickerBody(b) THEN "US_STOCK"
    ELSE "INVALID"

(***************************************************************************)
(* services/price_fetcher.py: the records the fetcher returns              *)
(***************************************************************************)
\* '—' (U+2014), the placeholder of name, price and currency
DASH == <<"U+2014">>
JPY == <<"J", "P", "Y">>
USD == <<"U", "S", "D">>

\* {'name': .., 'price': .., 'currency': ..}
PriceDict(name, price, currency) == [name |-> name, price |-> price, currency |-> currency]
\* {'name': .., 'price': .., 'currency': .., 'error': ..}
ErrorDict(name, price, currency, error) ==
    [name |-> name, price |-> price, currency |-> currency, error |-> error]

\* d.get(key, default)
DictGet(d, key, default) == IF key \in DOMAIN d THEN Some(d[key]) ELSE default
\* bool(v) of an optional str
Truthy(v) == v # None /\ v[1] # <<>>

\* the messages: a fixed phrase is one symbol, an interpolated value is spelled out
MsgUnknownType == <<"MSG_UNKNOWN_SECURITY_TYPE">>
MsgRetriesExhausted(n) == <<"MSG_FETCH_FAILED_OPEN">> \o StrOfNat(n) \o <<"MSG_TRIES_CLOSE">>
MsgNoData == <<"MSG_NO_DATA_FOR_DATE_MAYBE_HOLIDAY">>
MsgBadIsin == <<"MSG_ISIN_FORMAT_WRONG">>
\* faulty variant of MsgHttpStatus: the status is left out of the message
MsgHttpStatus_NoStatus(status) == <<"MSG_SITE_ACCESS_FAILED_OPEN", "H", "T", "T", "P", " ", "CLOSE">>
MsgHttpStatus(status) == <<"MSG_SITE_ACCESS_FAILED_OPEN", "H", "T", "T", "P", " ">> \o StrOfNat(status) \o <<"CLOSE">>
MsgTimeout == <<"MSG_CONNECTION_TIMED_OUT">>
MsgNetworkError(text) == <<"MSG_NETWORK_ERROR", ":", " ">> \o text
MsgLatestNav == <<"MSG_LATEST_NAV_MAYBE_NOT_TARGET_DATE">>
MsgNavFailed == <<"MSG_NAV_RETRIEVAL_FAILED">>
MsgInvalidCode == <<"MSG_INVALID_CODE_FORMAT">>
MsgFetchError(text) == <<"MSG_FETCH_ERROR", ":", " ">> \o text

\* f'投資信託 {code}'
FundLabel(code) == <<"MSG_INVESTMENT_TRUST", " ">> \o code
SiteTitle == <<"MSG_SITE_TITLE">>

\* target_date.strftime('%Y/%m/%d')
StrftimeSlash(d) == StrOfNat(d.y) \o <<"/">> \o Pad2(d.m) \o <<"/">> \o Pad2(d.d)
\* target_date.strftime('%Y年%m月%d日')
StrftimeKanji(d) == StrOfNat(d.y) \o <<"U+5E74">> \o Pad2(d.m) \o <<"U+6708">> \o Pad2(d.d) \o <<"U+65E5">>
MsgDateNotFound(d) == <<"MSG_TARGET_DATE_OPEN">> \o StrftimeSlash(d) \o <<"MSG_DATA_NOT_FOUND_CLOSE">>

\* f"{close_price:.2f}", the close price given in thousandths (no exact tie occurs
\* among the closes drawn)
Format2f(milli) ==
    LET a == IF milli < 0 THEN -milli ELSE milli
        cents == (a + 5) \div 10
    IN  (IF milli < 0 THEN <<"-">> ELSE <<>>)
            \o StrOfNat(cents \div 100) \o <<".">> \o Pad2(cents % 100)

\* an upstream request with how it ended: the exception it raised, or what it gave
\* (status is the HTTP status of a response, 0 when there is none)
Req(req, res, status) == [req |-> req, res |-> res, status |-> status]
AdapterReturn(rec, reqs) == [out |-> "return", rec |-> rec, reqs |-> reqs]
AdapterRaise(reqs) == [out |-> "raise", rec |-> None, reqs |-> reqs]

(***************************************************************************)
(* PriceFetcher._fetch_japanese_stock / _fetch_us_stock                    *)
(* hist: what ticker.history(start, end) does; info: what ticker.info does *)
(***************************************************************************)
FetchStock(code, hist, info, currency) ==
    IF hist.k = "raise" THEN AdapterRaise(<<Req("history", "raise", 0)>>)
    ELSE IF hist.k = "empty" THEN
        AdapterReturn(ErrorDict(DASH, DASH, DASH, MsgNoData), <<Req("history", "empty", 0)>>)
    ELSE
        LET name ==
                IF info.k = "raise" THEN code
                ELSE IF Truthy(info.longName) THEN info.longName[1]
                ELSE IF Truthy(info.shortName) THEN info.shortName[1]
                ELSE code
        IN  AdapterReturn(PriceDict(name, Format2f(hist.close), currency),
                          <<Req("history", "rows", 0), Req("info", info.k, 0)>>)

\* faulty variant of _fetch_japanese_stock: an empty history is raised as a fault
_fetch_japanese_stock_RaiseOnEmpty(code, target_date_, hist, info) ==
    IF hist.k = "empty" THEN AdapterRaise(<<Req("history", "empty", 0)>>)
    ELSE FetchStock(code, hist, info, JPY)

\* faulty variant of _fetch_japanese_stock: the currency is read off the code
_fetch_japanese_stock_CurrencyFromCode(code, target_date_, hist, info) ==
    FetchStock(code, hist, info, IF Contains(code, <<".", "T">>) THEN JPY ELSE USD)

_fetch_japanese_stock(code, target_date_, hist, info) == FetchStock(code, hist, info, JPY)

\* faulty variant of _fetch_us_stock: a failed name lookup is raised as a fault
_fetch_us_stock_RaiseOnInfo(code, target_date_, hist, info) ==
    IF hist.k = "rows" /\ info.k = "raise"
    THEN AdapterRaise(<<Req("history", "rows", 0), Req("info", "raise", 0)>>)
    ELSE FetchStock(code, hist, info, USD)

_fetch_us_stock(code, target_date_, hist, info) == FetchStock(code, hist, info, USD)

(***************************************************************************)
(* PriceFetcher._fetch_latest_nav_from_page                                *)
(* A parsed page (soup) is the record of what the code reads from it:      *)
(*   title  : the <title> text, None when the page has no title            *)
(*   linkCd : group 1 of associFundCd=([^&]+) in the csv-file-download link *)
(*   rawCd  : group 1 of associFundCd[=:]([A-Z0-9]{8,}) in the raw content *)
(*   nav1   : re.findall of pattern 1 on the page text                     *)
(*   nav2   : re.findall of pattern 2 on the page text                     *)
(***************************************************************************)
\* faulty variant of _fetch_latest_nav_from_page: any number found is returned
_fetch_latest_nav_from_page_AnyValue(soup, code, fund_name, target_date_) ==
    LET nav_patterns == IF soup.nav1 # <<>> THEN soup.nav1 ELSE soup.nav2
        price_text == Strip(RemoveChar(nav_patterns[1], ","))
        failed == ErrorDict(fund_name, DASH, DASH, MsgNavFailed)
    IN  IF nav_patterns = <<>> THEN failed
        ELSE IF ~(price_text # <<>> /\ IsDigitStr(price_text)) THEN failed
        ELSE ErrorDict(fund_name, StrOfNat(IntOf(price_text)), JPY, MsgLatestNav)

_fetch_latest_nav_from_page(soup, code, fund_name, target_date_) ==
    LET nav_patterns == IF soup.nav1 # <<>> THEN soup.nav1 ELSE soup.nav2
        price_text == Strip(RemoveChar(nav_patterns[1], ","))
        failed == ErrorDict(fund_name, DASH, DASH, MsgNavFailed)
    IN  IF nav_patterns = <<>> THEN failed
        ELSE IF ~(price_text # <<>> /\ IsDigitStr(price_text)) THEN failed
        ELSE IF ~IntAccepts(price_text) THEN failed   \* ValueError, caught
        ELSE IF 100 < IntOf(price_text) /\ IntOf(price_text) < 1000000
             THEN ErrorDict(fund_name, StrOfNat(IntOf(price_text)), JPY, MsgLatestNav)
        ELSE failed

(***************************************************************************)
(* PriceFetcher._fetch_japanese_mutual_fund                                *)
(***************************************************************************)
\* faulty variant of IsinBody: the length is not checked
IsinBody_AnyLength(s) ==
    /\ Len(s) >= 2
    /\ s[1] = "J"
    /\ s[2] = "P"
    /\ \A i \in 3..Len(s) : ReAlnumUpper(s[i])

\* JP[0-9A-Z]{10}
IsinBody(s) ==
    /\ Len(s) = 12
    /\ s[1] = "J"
    /\ s[2] = "P"
    /\ \A i \in 3..12 : ReAlnumUpper(s[i])

FullwidthBar == "U+FF5C"
\* title_text.split(sep)[0]
RECURSIVE SplitFirst(_, _)
SplitFirst(s, sep) ==
    IF s = <<>> \/ Head(s) = sep THEN <<>> ELSE <<Head(s)>> \o SplitFirst(Tail(s), sep)

\* lines 164-177: the fund name from the page title
FundName(soup, code) ==
    LET title_text == Strip(soup.title[1])
        fund_name ==
            IF soup.title = None THEN FundLabel(code)
            ELSE IF Contains(title_text, <<FullwidthBar>>) THEN Strip(SplitFirst(title_text, FullwidthBar))
            ELSE IF Contains(title_text, <<"|">>) THEN Strip(SplitFirst(title_text, "|"))
            ELSE IF title_text # <<>> /\ title_text # SiteTitle THEN title_text
            ELSE FundLabel(code)
    IN  IF fund_name = <<>> \/ fund_name = SiteTitle THEN FundLabel(code) ELSE fund_name

\* lines 181-197: associFundCd from the download link, else from the raw content
AssocFundCd(soup) == IF soup.linkCd # None THEN soup.linkCd ELSE soup.rawCd

\* '年月日', '日付', '基準価額'
Nengappi == <<"U+5E74", "U+6708", "U+65E5">>
Hizuke == <<"U+65E5", "U+4ED8">>
KijunKagaku == <<"U+57FA", "U+6E96", "U+4FA1", "U+984D">>

IsHeaderRow(row) ==
    /\ Len(row) >= 2
    /\ \/ Contains(Join(row), Nengappi)
       \/ Contains(Join(row), Hizuke)
       \/ Contains(Join(row), KijunKagaku)

\* lines 229-241: index (1-based) of the first header row, 0 when there is none
HeaderIdx(all_rows) ==
    IF \E i \in 1..Len(all_rows) : IsHeaderRow(all_rows[i])
    THEN CHOOSE i \in 1..Len(all_rows) :
            IsHeaderRow(all_rows[i]) /\ \A j \in 1..(i - 1) : ~IsHeaderRow(all_rows[j])
    ELSE 0

IsDateHeaderCell(cell) == Contains(cell, Nengappi) \/ Contains(cell, Hizuke)
IsNavHeaderCell(cell) == ~IsDateHeaderCell(cell) /\ Contains(cell, KijunKagaku)

\* lines 236-240: the last cell naming the column, 1-based; the defaults are the
\* first column for the date and the second for the NAV
DateCol(all_rows) ==
    LET h == HeaderIdx(all_rows)
        js == IF h = 0 THEN {} ELSE {j \in 1..Len(all_rows[h]) : IsDateHeaderCell(all_rows[h][j])}
    IN  IF js = {} THEN 1 ELSE CHOOSE j \in js : \A k \in js : k <= j
NavCol(all_rows) ==
    LET h == HeaderIdx(all_rows)
        js == IF h = 0 THEN {} ELSE {j \in 1..Len(all_rows[h]) : IsNavHeaderCell(all_rows[h][j])}
    IN  IF js = {} THEN 2 ELSE CHOOSE j \in js : \A k \in js : k <= j

\* faulty variant of ScanRows: only the slash-separated form of the date is taken
RECURSIVE ScanRows_SlashOnly(_, _, _, _)
ScanRows_SlashOnly(rows, date_col, nav_col, d) ==
    IF rows = <<>> THEN [k |-> "none"]
    ELSE
        LET row == Head(rows)
            dated ==
                /\ Len(row) >= date_col
                /\ Len(row) >= nav_col
                /\ Strip(row[date_col]) = StrftimeSlash(d)
            price_text == Strip(RemoveChar(row[nav_col], ","))
        IN  IF dated /\ IsDigitStr(price_text)
            THEN [k |-> "found", price |-> IntOf(price_text)]
            ELSE ScanRows_SlashOnly(Tail(rows), date_col, nav_col, d)

\* lines 249-262: the loop over the rows after the header; gives "none" when no
\* row is taken, "raise" when int() raises, else the price found
RECURSIVE ScanRows(_, _, _, _)
ScanRows(rows, date_col, nav_col, d) ==
    IF rows = <<>> THEN [k |-> "none"]
    ELSE
        LET row == Head(rows)
            dated ==
                /\ Len(row) >= date_col
                /\ Len(row) >= nav_col
                /\ Strip(row[date_col]) \in {StrftimeSlash(d), StrftimeKanji(d)}
            price_text == Strip(RemoveChar(row[nav_col], ","))
        IN  IF dated /\ IsDigitStr(price_text)
            THEN IF IntAccepts(price_text)
                 THEN [k |-> "found", price |-> IntOf(price_text)]
                 ELSE [k |-> "raise"]
            ELSE ScanRows(Tail(rows), date_col, nav_col, d)

\* faulty variant of ParseCsv: an empty table is reported as a date without data
ParseCsv_EmptyIsNotFound(soup, code, fund_name, d, csv) ==
    LET all_rows == csv.rows
        start == HeaderIdx(all_rows) + 1
        scan == ScanRows(SubSeq(all_rows, start, Len(all_rows)), DateCol(all_rows), NavCol(all_rows), d)
        fallback == _fetch_latest_nav_from_page(soup, code, fund_name, d)
    IN  IF csv.k = "error" THEN fallback
        ELSE IF all_rows = <<>> THEN ErrorDict(fund_name, DASH, DASH, MsgDateNotFound(d))
        ELSE IF scan.k = "raise" THEN fallback
        ELSE IF scan.k = "found" THEN PriceDict(fund_name, StrOfNat(scan.price), JPY)
        ELSE ErrorDict(fund_name, DASH, DASH, MsgDateNotFound(d))

\* faulty variant of ParseCsv: a date without data falls back to the page scrape
ParseCsv_NotFoundFallsBack(soup, code, fund_name, d, csv) ==
    LET all_rows == csv.rows
        start == HeaderIdx(all_rows) + 1
        scan == ScanRows(SubSeq(all_rows, start, Len(all_rows)), DateCol(all_rows), NavCol(all_rows), d)
        fallback == _fetch_latest_nav_from_page(soup, code, fund_name, d)
    IN  IF csv.k = "error" THEN fallback
        ELSE IF all_rows = <<>> THEN fallback
        ELSE IF scan.k = "raise" THEN fallback
        ELSE IF scan.k = "found" THEN PriceDict(fund_name, StrOfNat(scan.price), JPY)
        ELSE fallback

\* lines 214-274: csv is what csv.reader gives: the rows, or a csv.Error
ParseCsv(soup, code, fund_name, d, csv) ==
    LET all_rows == csv.rows
        start == HeaderIdx(all_rows) + 1
        scan == ScanRows(SubSeq(all_rows, start, Len(all_rows)), DateCol(all_rows), NavCol(all_rows), d)
        fallback == _fetch_latest_nav_from_page(soup, code, fund_name, d)
    IN  IF csv.k = "error" THEN fallback
        ELSE IF all_rows = <<>> THEN fallback
        ELSE IF scan.k = "raise" THEN fallback
        ELSE IF scan.k = "found" THEN PriceDict(fund_name, StrOfNat(scan.price), JPY)
        ELSE ErrorDict(fund_name, DASH, DASH, MsgDateNotFound(d))

\* requests.get(url): the exception raised, or the response with its status
HttpReq(req, ans) == Req(req, ans.k, IF ans.k = "response" THEN ans.status ELSE 0)

\* faulty variant of OnRequestRaise: a timeout is raised again
OnRequestRaise_ReraiseTimeout(code, k, reqs) ==
    IF k = "RequestException"
    THEN AdapterReturn(ErrorDict(FundLabel(code), DASH, DASH, MsgNetworkError(<<"EXC_TEXT">>)), reqs)
    ELSE AdapterRaise(reqs)

\* lines 276-294: the adapter's except clauses, by what requests.get raised
OnRequestRaise(code, k, reqs) ==
    IF k = "Timeout" THEN AdapterReturn(ErrorDict(FundLabel(code), DASH, DASH, MsgTimeout), reqs)
    ELSE IF k = "RequestException"
         THEN AdapterReturn(ErrorDict(FundLabel(code), DASH, DASH, MsgNetworkError(<<"EXC_TEXT">>)), reqs)
    ELSE AdapterRaise(reqs)

\* faulty variant of _fetch_japanese_mutual_fund: the download is requested
\* even when the page holds no association code
_fetch_japanese_mutual_fund_CsvWithoutCode(code, d, page, csvr) ==
    LET page_req == <<HttpReq("page", page)>>
        both_req == page_req \o <<HttpReq("csv", csvr)>>
        soup == page.soup
        fund_name == FundName(soup, code)
    IN  IF ~(\E b \in ReUpToEnd(code) : IsinBody(b))
        THEN AdapterReturn(ErrorDict(FundLabel(code), DASH, DASH, MsgBadIsin), <<>>)
        ELSE IF page.k # "response" THEN OnRequestRaise(code, page.k, page_req)
        ELSE IF page.status # 200
             THEN AdapterReturn(ErrorDict(FundLabel(code), DASH, DASH, MsgHttpStatus(page.status)), page_req)
        ELSE IF AssocFundCd(soup) = None
             THEN AdapterReturn(_fetch_latest_nav_from_page(soup, code, fund_name, d), both_req)
        ELSE IF csvr.k # "response" THEN OnRequestRaise(code, csvr.k, both_req)
        ELSE IF csvr.status # 200
             THEN AdapterReturn(_fetch_latest_nav_from_page(soup, code, fund_name, d), both_req)
        ELSE AdapterReturn(ParseCsv(soup, code, fund_name, d, csvr.csv), both_req)

\* page: what requests.get(page_url) does; csvr: what requests.get(csv_url) does
_fetch_japanese_mutual_fund(code, d, page, csvr) ==
    LET page_req == <<HttpReq("page", page)>>
        both_req == page_req \o <<HttpReq("csv", csvr)>>
        soup == page.soup
        fund_name == FundName(soup, code)
    IN  IF ~(\E b \in ReUpToEnd(code) : IsinBody(b))
        THEN AdapterReturn(ErrorDict(FundLabel(code), DASH, DASH, MsgBadIsin), <<>>)
        ELSE IF page.k # "response" THEN OnRequestRaise(code, page.k, page_req)
        ELSE IF page.status # 200
             THEN AdapterReturn(ErrorDict(FundLabel(code), DASH, DASH, MsgHttpStatus(page.status)), page_req)
        ELSE IF AssocFundCd(soup) = None
             THEN AdapterReturn(_fetch_latest_nav_from_page(soup, code, fund_name, d), page_req)
        ELSE IF csvr.k # "response" THEN OnRequestRaise(code, csvr.k, both_req)
        ELSE IF csvr.status # 200
             THEN AdapterReturn(_fetch_latest_nav_from_page(soup, code, fund_name, d), both_req)
        ELSE AdapterReturn(ParseCsv(soup, code, fund_name, d, csvr.csv), both_req)

(***************************************************************************)
(* routes.py: reading the form                                             *)
(***************************************************************************)
\* s.split(sep)
RECURSIVE Split(_, _)
Split(s, sep) ==
    IF ~Contains(s, <<sep>>) THEN <<s>>
    ELSE <<SplitFirst(s, sep)>> \o Split(SubSeq(s, Len(SplitFirst(s, sep)) + 2, Len(s)), sep)

\* [sec.strip().upper() for sec in pieces if sec.strip()]
RECURSIVE StripUpperNonEmpty(_)
StripUpperNonEmpty(pieces) ==
    IF pieces = <<>> THEN <<>>
    ELSE (IF Strip(Head(pieces)) # <<>> THEN <<Upper(Strip(Head(pieces)))>> ELSE <<>>)
            \o StripUpperNonEmpty(Tail(pieces))

\* lines 42 and 104
ParseSecurities(securities_str) == StripUpperNonEmpty(Split(securities_str, ","))

IsAsciiNumber(s) == s # <<>> /\ \A i \in 1..Len(s) : s[i] \in AsciiDigits
DaysIn(y, m) ==
    IF m = 2 THEN (IF y % 4 = 0 /\ (y % 100 # 0 \/ y % 400 = 0) THEN 29 ELSE 28)
    ELSE IF m \in {4, 6, 9, 11} THEN 30 ELSE 31

\* datetime.strptime(date_str, '%Y-%m-%d'): the date, or None for ValueError
Strptime(date_str) ==
    LET parts == Split(date_str, "-")
        y == IntOf(parts[1])
        m == IntOf(parts[2])
        d == IntOf(parts[3])
    IN  IF /\ Len(parts) = 3
           /\ \A i \in 1..3 : IsAsciiNumber(parts[i])
           /\ Len(parts[1]) = 4 /\ Len(parts[2]) <= 2 /\ Len(parts[3]) <= 2
           /\ y >= 1 /\ m \in 1..12 /\ d \in 1..DaysIn(y, m)
        THEN Some([y |-> y, m |-> m, d |-> d])
        ELSE None

(***************************************************************************)
(* The inputs drawn: codes, forms, dates, upstream answers                 *)
(***************************************************************************)
MaxCodeLen == 13
MaxSecurities == 2
MaxCsvRows == 2
MaxResolutions == 2

RECURSIVE Rep(_, _)
Rep(c, n) == IF n = 0 THEN <<>> ELSE <<c>> \o Rep(c, n - 1)

\* strings a user may type as a code
TypedCodes ==
    {<<"7", "2", "0", "3", ".", "T", "LF">>,
     <<"U+FF17", "2", "0", "3", ".", "T">>,
     <<"7", "2", "0", "3", ".", "T", "T">>,
     <<"7", "2", "0", "3", "T">>,
     <<"J", "P", "9", "0", "C", "0", "0", "0", "A", "9", "3", "1">>,
     <<"J", "P", "1", "2", "3", "4", "5", "6", "7", "8", "9", "0", "LF">>,
     <<"A", "B", "1", "2", "C", "D", "3", "4">>,
     <<"1", "2", "A", "B", "3", "4", "C", "D">>,
     <<"1", "2", "3", "4", "5", "6", "7", "U+FF17">>,
     <<"B", "R", "K", ".", "B">>,
     <<"B", "R", "K", "-", "B">>,
     <<"B", "R", "K", "_", "B">>,
     <<"I", "N", "V", "A", "L", "I", "D", "C", "O", "D", "E", "!">>,
     <<"1", "A", "B", "C">>,
     <<"B", "T", "C">>,
     <<"A", "A", "P", "L", "LF">>,
     <<"a", "a", "p", "l">>,
     <<"A", ".", "-">>,
     <<".", "A">>,
     <<"A", "B", "1", "2", "C", "D", "3", "!">>}
    \cup {Rep("7", n) : n \in 0..MaxCodeLen}
    \cup {Rep("A", n) : n \in 0..MaxCodeLen}
    \cup {<<"J", "P">> \o Rep("1", n) : n \in 0..(MaxCodeLen - 2)}
    \cup {Rep("7", n) \o <<".", "T">> : n \in 0..MaxCodeLen}
    \cup {<<"7", "2", "0", "3", ".", c>> : c \in UpperLetters \cup LowerLetters \cup AsciiDigits \cup {".", LF}}
    \cup {<<"7", "2", "0", "3", c, "T">> : c \in {".", "-", ",", "A", "0"}}

\* a SecurityCode: what lines 42 and 104 make of a typed code that is not blank
Codes == {Upper(Strip(t)) : t \in {u \in TypedCodes : Strip(u) # <<>>}}

SecurityTypes == {"JP_STOCK", "US_STOCK", "JP_MUTUALFUND", "INVALID", "CRYPTO"}

\* the codes fetch_price is called with directly
FetchCodes ==
    {<<"7", "2", "0", "3", ".", "T">>,
     <<"J", "P", "1", "2", "3", "4", "5", "6", "7", "8", "9", "0">>,
     <<"J", "P", "1", "2", "3", "4", "5", "6", "7", "8", "9">>,
     <<"1", "2", "3", "4", "5", "6", "7", "8">>,
     <<"I", "N", "V", "A", "L", "I", "D", "C", "O", "D", "E", "!">>}

\* the pieces a securities string is made of
Pieces ==
    {<<" ", "7", "2", "0", "3", ".", "t">>,
     <<"a", "a", "p", "l", " ">>,
     <<"1", "2", "3", "4", "5", "6", "7", "8">>,
     <<"J", "P", "1", "2", "3", "4", "5", "6", "7", "8", "9", "0">>,
     <<"I", "N", "V", "A", "L", "I", "D", "C", "O", "D", "E", "!">>,
     <<" ">>}

RECURSIVE SeqsUpTo(_, _)
SeqsUpTo(S, n) ==
    IF n = 0 THEN {<<>>}
    ELSE SeqsUpTo(S, n - 1) \cup {Append(q, x) : q \in {t \in SeqsUpTo(S, n - 1) : Len(t) = n - 1}, x \in S}

\* ','.join(pieces)
RECURSIVE JoinComma(_)
JoinComma(pieces) ==
    IF pieces = <<>> THEN <<>>
    ELSE IF Len(pieces) = 1 THEN pieces[1]
    ELSE pieces[1] \o <<",">> \o JoinComma(Tail(pieces))

SecuritiesStrings == {JoinComma(ps) : ps \in SeqsUpTo(Pieces, MaxSecurities)}

DateStrings ==
    {<<"2", "0", "2", "4", "-", "0", "1", "-", "1", "5">>,
     <<"2", "0", "2", "4", "/", "0", "1", "/", "1", "5">>,
     <<>>}

\* the dates fetch_price is called with directly
Dates == {[y |-> 2024, m |-> 1, d |-> 15], [y |-> 2024, m |-> 1, d |-> 5]}

\* ticker.history(start, end): raises, gives no row, or gives a row with this
\* close (in thousandths)
Closes == {2500000, 4, 0, -1500}
HistAnswers ==
    {[k |-> "raise"], [k |-> "empty"]} \cup {[k |-> "rows", close |-> c] : c \in Closes}

\* ticker.info: raises, or gives a dict with these longName and shortName
InfoAnswers ==
    {[k |-> "raise"]}
    \cup {[k |-> "dict", longName |-> l, shortName |-> sh] :
            l \in {None, Some(<<>>), Some(<<"Toyota Motor">>)},
            sh \in {None, Some(<<"TOYOTA">>)}}

\* the fund detail pages
Titles ==
    {None, Some(<<"Fund A", " ", FullwidthBar, " ">> \o SiteTitle), Some(SiteTitle)}
AssocCd == <<"0", "1", "3", "1", "1", "0", "7", "A">>
Soups ==
    {[title |-> t, linkCd |-> cd[1], rawCd |-> cd[2], nav1 |-> n1, nav2 |-> n2] :
        t \in Titles,
        cd \in {<<None, None>>, <<Some(AssocCd), None>>, <<None, Some(AssocCd)>>},
        n1 \in {<<>>, <<<<"1", "2", ",", "3", "4", "5">>>>, <<<<"5", "0">>>>, <<<<",">>>>},
        n2 \in {<<>>, <<<<"9", ",", "8", "7", "6">>>>}}
ErrorSoup == [title |-> None, linkCd |-> None, rawCd |-> None, nav1 |-> <<>>, nav2 |-> <<>>]

\* requests.get: raises Timeout, another RequestException, another Exception, or
\* gives a response
RaiseAnswers == {[k |-> "Timeout"], [k |-> "RequestException"], [k |-> "Exception"]}
PageAnswers ==
    RaiseAnswers
    \cup {[k |-> "response", status |-> st, soup |-> ErrorSoup] : st \in {404, 503}}
    \cup {[k |-> "response", status |-> 200, soup |-> sp] : sp \in Soups}

\* the rows of the downloaded table, decoded from Shift-JIS (line 217): the digit
\* characters of that encoding are the ASCII and the fullwidth decimal digits
HeaderRows ==
    {<<<<"U+5E74", "U+6708", "U+65E5">>, <<"U+57FA", "U+6E96", "U+4FA1", "U+984D", "(", "円", ")">>>>,
     <<<<"U+57FA", "U+6E96", "U+4FA1", "U+984D">>, <<"U+65E5", "U+4ED8">>>>}
DataRows ==
    {<<<<"2", "0", "2", "4", "/", "0", "1", "/", "1", "5">>, <<"1", "2", ",", "3", "4", "5">>>>,
     <<<<"2", "0", "2", "4", "U+5E74", "0", "1", "U+6708", "0", "5", "U+65E5">>, <<" ", "9", ",", "8", "7", "6", " ">>>>,
     <<<<"2", "0", "2", "4", "/", "0", "1", "/", "1", "5">>, <<"0">>>>,
     <<<<"2", "0", "2", "4", "/", "0", "1", "/", "1", "5">>, <<"N", "/", "A">>>>,
     <<<<"2", "0", "2", "4", "/", "0", "1", "/", "1", "5">>, <<"1", "U+FF17">>>>,
     <<<<"1", "1", ",", "1", "1", "1">>, <<" ", "2", "0", "2", "4", "/", "0", "1", "/", "1", "5">>>>,
     <<<<"2", "0", "2", "4", "/", "0", "1", "/", "1", "5">>>>}
CsvTables ==
    {h \o rows : h \in {<<>>} \cup {<<r>> : r \in HeaderRows}, rows \in SeqsUpTo(DataRows, MaxCsvRows)}
CsvAnswers ==
    RaiseAnswers
    \cup {[k |-> "response", status |-> 404, csv |-> [k |-> "error"]]}
    \cup {[k |-> "response", status |-> 200, csv |-> [k |-> "error"]]}
    \cup {[k |-> "response", status |-> 200, csv |-> [k |-> "rows", rows |-> t]] : t \in CsvTables}
\* no download is requested
NoCsv == [k |-> "not requested"]

(***************************************************************************)
(* PriceFetcher.__init__ and fetch_price                                   *)
(***************************************************************************)
\* faulty variant of PriceFetcher_init: one attempt fewer
PriceFetcher_init_TwoRetries == [max_retries |-> 2, retry_delay |-> 1]
PriceFetcher_init == [max_retries |-> 3, retry_delay |-> 1]

NoCall == [code |-> <<>>, security_type |-> "", attempt |-> 0]
NoRet == [k |-> "nothing"]
NotAsked == [k |-> "nothing"]
\* a resolution that has not called fetch_price yet
IdleFrame ==
    [pc |-> "idle", code |-> <<>>, security_type |-> "", target_date |-> [y |-> 1, m |-> 1, d |-> 1],
     attempt |-> 0, ret |-> NoRet, answers |-> <<>>]

\* faulty variant of ExceptClause: the last attempt sleeps too and returns nothing
ExceptClause_AlwaysSleep(f, attempt) ==
    IF attempt < f.max_retries
    THEN [do |-> "sleep", delay |-> f.retry_delay]
    ELSE [do |-> "return",
          rec |-> ErrorDict(DASH, DASH, DASH, MsgRetriesExhausted(f.max_retries))]

\* faulty variant of ExceptClause: the first fault ends the call
ExceptClause_GiveUpAtOnce(f, attempt) ==
    [do |-> "return",
     rec |-> ErrorDict(DASH, DASH, DASH, MsgRetriesExhausted(f.max_retries))]

\* lines 35-45: the except clause of attempt number `attempt` (from 0)
ExceptClause(f, attempt) ==
    IF attempt < f.max_retries - 1
    THEN [do |-> "sleep", delay |-> f.retry_delay]
    ELSE [do |-> "return",
          rec |-> ErrorDict(DASH, DASH, DASH, MsgRetriesExhausted(f.max_retries))]

\* lines 20-45: one iteration of the loop, the adapter having ended as r
FetchPriceIteration(adapter, r) ==
    LET e == ExceptClause(fetcher, call.attempt)
        entry(slept) == [adapter |-> adapter, reqs |-> r.reqs, out |-> r.out,
                         gave |-> IF r.out = "return" THEN Some(r.rec) ELSE None,
                         slept |-> slept]
    IN  IF call.attempt >= fetcher.max_retries
        THEN \* range(max_retries) is used up: the function ends without a return
             /\ ret' = [k |-> "None"]
             /\ pc' = "returned"
             /\ UNCHANGED <<call, trace>>
        ELSE IF r.out = "return"
        THEN /\ ret' = [k |-> "dict", v |-> r.rec]
             /\ pc' = "returned"
             /\ trace' = Append(trace, entry(FALSE))
             /\ call' = call
        ELSE IF e.do = "sleep"
        THEN /\ trace' = Append(trace, entry(TRUE))
             /\ call' = [call EXCEPT !.attempt = @ + 1]
             /\ UNCHANGED <<pc, ret>>
        ELSE /\ ret' = [k |-> "dict", v |-> e.rec]
             /\ pc' = "returned"
             /\ trace' = Append(trace, entry(FALSE))
             /\ call' = call

RoutesUnchanged == UNCHANGED <<op, fetcher, submitted, securities, target_date, idx, results, files, asked, frames>>

\* lines 22-23
AttemptJpStock ==
    /\ pc = "attempt"
    /\ call.security_type = "JP_STOCK"
    /\ \E hist \in HistAnswers, info \in InfoAnswers :
        FetchPriceIteration("_fetch_japanese_stock",
                            _fetch_japanese_stock(call.code, target_date, hist, info))
    /\ RoutesUnchanged

\* lines 24-25
AttemptUsStock ==
    /\ pc = "attempt"
    /\ call.security_type = "US_STOCK"
    /\ \E hist \in HistAnswers, info \in InfoAnswers :
        FetchPriceIteration("_fetch_us_stock",
                            _fetch_us_stock(call.code, target_date, hist, info))
    /\ RoutesUnchanged

\* whether the adapter, given this page answer, requests the download
RequestsCsv(code, page) ==
    /\ \E b \in ReUpToEnd(code) : IsinBody(b)
    /\ page.k = "response"
    /\ page.status = 200
    /\ AssocFundCd(page.soup) # None

\* lines 26-27
AttemptMutualFund ==
    /\ pc = "attempt"
    /\ call.security_type = "JP_MUTUALFUND"
    /\ \E page \in PageAnswers :
        \E csvr \in (IF RequestsCsv(call.code, page) THEN CsvAnswers ELSE {NoCsv}) :
            FetchPriceIteration("_fetch_japanese_mutual_fund",
                                _fetch_japanese_mutual_fund(call.code, target_date, page, csvr))
    /\ RoutesUnchanged

\* lines 28-34
AttemptUnknownType ==
    /\ pc = "attempt"
    /\ call.security_type \notin {"JP_STOCK", "US_STOCK", "JP_MUTUALFUND"}
    /\ FetchPriceIteration("none", AdapterReturn(ErrorDict(DASH, DASH, DASH, MsgUnknownType), <<>>))
    /\ RoutesUnchanged

(***************************************************************************)
(* Entry points called on their own: classify_security, fetch_price        *)
(***************************************************************************)
CallClassify ==
    /\ op = "idle"
    /\ \E code \in Codes :
        ret' = [k |-> "type", code |-> code, v |-> classify_security(code)]
    /\ op' = "classify_security"
    /\ pc' = "returned"
    /\ UNCHANGED <<fetcher, submitted, securities, target_date, idx, results, files, call, trace, asked, frames>>

CallFetchPrice ==
    /\ op = "idle"
    /\ \E code \in FetchCodes, security_type \in SecurityTypes, d \in Dates :
        /\ call' = [code |-> code, security_type |-> security_type, attempt |-> 0]
        /\ target_date' = d
    /\ op' = "fetch_price"
    /\ pc' = "attempt"
    /\ trace' = <<>>
    /\ UNCHANGED <<fetcher, submitted, securities, idx, results, files, ret, asked, frames>>

(***************************************************************************)
(* routes.py: fetch_prices                                                 *)
(***************************************************************************)
NoForm == [date |-> <<>>, securities |-> <<>>]
Forms == [date : DateStrings, securities : SecuritiesStrings]

\* lines 54-61, 66-73 and 76-83: a row of results
ResultRow(security, date_str, name, price, currency, error) ==
    [input_code |-> security, date |-> date_str, name |-> name, price |-> price,
     currency |-> currency, error |-> error]

\* lines 24-49 (fetch_prices) up to the loop
PostFetchPrices ==
    /\ op = "idle"
    /\ op' = "fetch_prices"
    /\ \E form \in Forms :
        LET date_str == Strip(form.date)
            securities_str == Strip(form.securities)
        IN  /\ submitted' = form
            /\ IF date_str = <<>> \/ securities_str = <<>>
               THEN /\ pc' = "flash"
                    /\ UNCHANGED <<fetcher, securities, target_date, idx, results>>
               ELSE IF Strptime(date_str) = None
               THEN /\ pc' = "flash"
                    /\ UNCHANGED <<fetcher, securities, target_date, idx, results>>
               ELSE IF ParseSecurities(securities_str) = <<>>
               THEN /\ pc' = "flash"
                    /\ target_date' = Strptime(date_str)[1]
                    /\ securities' = <<>>
                    /\ UNCHANGED <<fetcher, idx, results>>
               ELSE /\ pc' = "loop"
                    /\ target_date' = Strptime(date_str)[1]
                    /\ securities' = ParseSecurities(securities_str)
                    /\ fetcher' = PriceFetcher_init
                    /\ idx' = 1
                    /\ results' = <<>>
    /\ UNCHANGED <<files, call, ret, trace, asked, frames>>

\* faulty variant of LoopFetchPrices: an INVALID code is handed to fetch_price too
LoopFetchPrices_FetchInvalid ==
    /\ op = "fetch_prices"
    /\ pc = "loop"
    /\ IF idx > Len(securities)
       THEN /\ pc' = "rendered"
            /\ UNCHANGED <<results, idx, call, trace>>
       ELSE /\ call' = [code |-> securities[idx],
                        security_type |-> classify_security(securities[idx]), attempt |-> 0]
            /\ trace' = <<>>
            /\ pc' = "attempt"
            /\ UNCHANGED <<results, idx>>
    /\ UNCHANGED <<op, fetcher, submitted, securities, target_date, files, ret, asked, frames>>

\* faulty variant of LoopFetchPrices: an INVALID code is passed over without a row
LoopFetchPrices_SkipInvalid ==
    /\ op = "fetch_prices"
    /\ pc = "loop"
    /\ IF idx > Len(securities)
       THEN /\ pc' = "rendered"
            /\ UNCHANGED <<results, idx, call, trace>>
       ELSE IF classify_security(securities[idx]) = "INVALID"
       THEN /\ idx' = idx + 1
            /\ UNCHANGED <<pc, results, call, trace>>
       ELSE /\ call' = [code |-> securities[idx],
                        security_type |-> classify_security(securities[idx]), attempt |-> 0]
            /\ trace' = <<>>
            /\ pc' = "attempt"
            /\ UNCHANGED <<results, idx>>
    /\ UNCHANGED <<op, fetcher, submitted, securities, target_date, files, ret, asked, frames>>

\* lines 51-65 and 85: the head of the loop
LoopFetchPrices ==
    /\ op = "fetch_prices"
    /\ pc = "loop"
    /\ IF idx > Len(securities)
       THEN /\ pc' = "rendered"
            /\ UNCHANGED <<results, idx, call, trace>>
       ELSE LET security == securities[idx]
                security_type == classify_security(security)
            IN  IF security_type = "INVALID"
                THEN /\ results' = Append(results,
                            ResultRow(security, Strip(submitted.date), DASH, DASH, DASH, Some(MsgInvalidCode)))
                     /\ idx' = idx + 1
                     /\ UNCHANGED <<pc, call, trace>>
                ELSE /\ call' = [code |-> security, security_type |-> security_type, attempt |-> 0]
                     /\ trace' = <<>>
                     /\ pc' = "attempt"
                     /\ UNCHANGED <<results, idx>>
    /\ UNCHANGED <<op, fetcher, submitted, securities, target_date, files, ret, asked, frames>>

\* lines 65-83: fetch_price has ended
CollectFetchPrices ==
    /\ op = "fetch_prices"
    /\ pc = "returned"
    /\ LET security == securities[idx]
           date_str == Strip(submitted.date)
           price_data == ret.v
       IN  results' = Append(results,
                IF ret.k = "dict"
                THEN ResultRow(security, date_str,
                               DictGet(price_data, "name", Some(DASH))[1],
                               DictGet(price_data, "price", Some(DASH))[1],
                               DictGet(price_data, "currency", Some(DASH))[1],
                               DictGet(price_data, "error", None))
                ELSE \* an exception out of fetch_price, or price_data is None
                     ResultRow(security, date_str, DASH, DASH, DASH, Some(MsgFetchError(<<"EXC_TEXT">>))))
    /\ idx' = idx + 1
    /\ pc' = "loop"
    /\ UNCHANGED <<op, fetcher, submitted, securities, target_date, files, call, ret, trace, asked, frames>>

(***************************************************************************)
(* routes.py: download_ofx                                                 *)
(***************************************************************************)
\* lines 120-126
ValidResult(security, price_data, security_type) ==
    [code |-> security, name |-> DictGet(price_data, "name", None)[1],
     price |-> DictGet(price_data, "price", None)[1],
     currency |-> DictGet(price_data, "currency", None)[1], type |-> security_type]

\* line 119
IsValidPriceData(price_data) ==
    /\ Truthy(DictGet(price_data, "price", None))
    /\ DictGet(price_data, "price", None) # Some(DASH)
    /\ ~Truthy(DictGet(price_data, "error", None))

\* [r for r in valid_results if r.get('currency') == currency]
RECURSIVE ByCurrency(_, _)
ByCurrency(valid_results, currency) ==
    IF valid_results = <<>> THEN <<>>
    ELSE (IF Head(valid_results).currency = currency THEN <<Head(valid_results)>> ELSE <<>>)
            \o ByCurrency(Tail(valid_results), currency)

\* faulty variant of OfxFiles: one file whatever the currencies
OfxFiles_NoSplit(valid_results) ==
    <<[suffix |-> IF ByCurrency(valid_results, JPY) # <<>> THEN JPY ELSE USD,
       records |-> valid_results]>>

\* lines 131-198: what is handed to generate_ofx, with the currency of the file name
OfxFiles(valid_results) ==
    LET jpy_results == ByCurrency(valid_results, JPY)
        usd_results == ByCurrency(valid_results, USD)
    IN  IF jpy_results = <<>> \/ usd_results = <<>>
        THEN <<[suffix |-> IF jpy_results # <<>> THEN JPY ELSE USD, records |-> valid_results]>>
        ELSE <<[suffix |-> JPY, records |-> jpy_results], [suffix |-> USD, records |-> usd_results]>>

\* lines 95-110 (download_ofx) up to the loop
PostDownloadOfx ==
    /\ op = "idle"
    /\ op' = "download_ofx"
    /\ \E form \in Forms :
        LET date_str == form.date
            securities_str == Strip(form.securities)
        IN  /\ submitted' = form
            /\ IF date_str = <<>> \/ securities_str = <<>>
               THEN /\ pc' = "redirect"
                    /\ UNCHANGED <<fetcher, securities, target_date, idx, results>>
               ELSE IF Strptime(date_str) = None
               THEN \* strptime raises ValueError: lines 200-203
                    /\ pc' = "redirect"
                    /\ securities' = ParseSecurities(securities_str)
                    /\ UNCHANGED <<fetcher, target_date, idx, results>>
               ELSE /\ pc' = "loop"
                    /\ target_date' = Strptime(date_str)[1]
                    /\ securities' = ParseSecurities(securities_str)
                    /\ fetcher' = PriceFetcher_init
                    /\ idx' = 1
                    /\ results' = <<>>
    /\ UNCHANGED <<files, call, ret, trace, asked, frames>>

\* lines 112-118 and 131-198: the head of the loop, and what follows the loop
LoopDownloadOfx ==
    /\ op = "download_ofx"
    /\ pc = "loop"
    /\ IF idx > Len(securities)
       THEN /\ IF results = <<>>
               THEN pc' = "redirect" /\ files' = files
               ELSE pc' = "sent" /\ files' = OfxFiles(results)
            /\ UNCHANGED <<idx, call, trace>>
       ELSE LET security == securities[idx]
                security_type == classify_security(security)
            IN  IF security_type = "INVALID"
                THEN /\ idx' = idx + 1
                     /\ UNCHANGED <<pc, files, call, trace>>
                ELSE /\ call' = [code |-> security, security_type |-> security_type, attempt |-> 0]
                     /\ trace' = <<>>
                     /\ pc' = "attempt"
                     /\ UNCHANGED <<idx, files>>
    /\ UNCHANGED <<op, fetcher, submitted, securities, target_date, results, ret, asked, frames>>

\* lines 118-129: fetch_price has ended
CollectDownloadOfx ==
    /\ op = "download_ofx"
    /\ pc = "returned"
    /\ results' =
        IF ret.k = "dict" /\ IsValidPriceData(ret.v)
        THEN Append(results, ValidResult(securities[idx], ret.v, call.security_type))
        ELSE results
    /\ idx' = idx + 1
    /\ pc' = "loop"
    /\ UNCHANGED <<op, fetcher, submitted, securities, target_date, files, call, ret, trace, asked, frames>>

(***************************************************************************)
(* The program                                                             *)
(***************************************************************************)
Init ==
    /\ op = "idle"
    /\ pc = "idle"
    /\ fetcher = PriceFetcher_init
    /\ submitted = NoForm
    /\ securities = <<>>
    /\ target_date = [y |-> 1, m |-> 1, d |-> 1]
    /\ idx = 0
    /\ results = <<>>
    /\ files = <<>>
    /\ call = NoCall
    /\ ret = NoRet
    /\ trace = <<>>
    /\ asked = NotAsked
    /\ frames = [i \in 1..MaxResolutions |-> IdleFrame]

Next ==
    \/ CallClassify
    \/ CallFetchPrice
    \/ PostFetchPrices
    \/ PostDownloadOfx
    \/ AttemptJpStock
    \/ AttemptUsStock
    \/ AttemptMutualFund
    \/ AttemptUnknownType
    \/ LoopFetchPrices
    \/ CollectFetchPrices
    \/ LoopDownloadOfx
    \/ CollectDownloadOfx

Spec == Init /\ [][Next]_vars

\* the steps the program takes by itself once an entry point was called
Running ==
    \/ AttemptJpStock
    \/ AttemptUsStock
    \/ AttemptMutualFund
    \/ AttemptUnknownType
    \/ LoopFetchPrices
    \/ CollectFetchPrices
    \/ LoopDownloadOfx
    \/ CollectDownloadOfx

(***************************************************************************)
(* fetch_price called on its own and followed to the end of its first      *)
(* adapter run, the upstream answers of that run kept in `asked`           *)
(***************************************************************************)
\* ticker.info is read only when the history has a row (lines 59-70)
ReadsInfo(hist) == hist.k = "rows"
NoInfo == [k |-> "not requested"]

\* lines 20-23, first iteration
FirstAttemptJpStock ==
    /\ op = "fetch_price"
    /\ pc = "attempt"
    /\ call.attempt = 0
    /\ call.security_type = "JP_STOCK"
    /\ \E hist \in HistAnswers :
        \E info \in (IF ReadsInfo(hist) THEN InfoAnswers ELSE {NoInfo}) :
            /\ FetchPriceIteration("_fetch_japanese_stock",
                                   _fetch_japanese_stock(call.code, target_date, hist, info))
            /\ asked' = [k |-> "stock", hist |-> hist, info |-> info]
    /\ UNCHANGED <<op, fetcher, submitted, securities, target_date, idx, results, files, frames>>

\* lines 20-25, first iteration
FirstAttemptUsStock ==
    /\ op = "fetch_price"
    /\ pc = "attempt"
    /\ call.attempt = 0
    /\ call.security_type = "US_STOCK"
    /\ \E hist \in HistAnswers :
        \E info \in (IF ReadsInfo(hist) THEN InfoAnswers ELSE {NoInfo}) :
            /\ FetchPriceIteration("_fetch_us_stock",
                                   _fetch_us_stock(call.code, target_date, hist, info))
            /\ asked' = [k |-> "stock", hist |-> hist, info |-> info]
    /\ UNCHANGED <<op, fetcher, submitted, securities, target_date, idx, results, files, frames>>

\* the page is fetched only for a code of the ISIN shape (lines 133-151)
RequestsPage(code) == \E b \in ReUpToEnd(code) : IsinBody(b)
NoPage == [k |-> "not requested", soup |-> ErrorSoup]

\* lines 20-27, first iteration
FirstAttemptMutualFund ==
    /\ op = "fetch_price"
    /\ pc = "attempt"
    /\ call.attempt = 0
    /\ call.security_type = "JP_MUTUALFUND"
    /\ \E page \in (IF RequestsPage(call.code) THEN PageAnswers ELSE {NoPage}) :
        \E csvr \in (IF RequestsCsv(call.code, page) THEN CsvAnswers ELSE {NoCsv}) :
            /\ FetchPriceIteration("_fetch_japanese_mutual_fund",
                                   _fetch_japanese_mutual_fund(call.code, target_date, page, csvr))
            /\ asked' = [k |-> "fund", page |-> page, csvr |-> csvr]
    /\ UNCHANGED <<op, fetcher, submitted, securities, target_date, idx, results, files, frames>>

AdapterNext ==
    \/ CallFetchPrice
    \/ FirstAttemptJpStock
    \/ FirstAttemptUsStock
    \/ FirstAttemptMutualFund
    \/ AttemptUnknownType

AdapterSpec == Init /\ [][AdapterNext]_vars

(***************************************************************************)
(* Several resolutions at the same time on one PriceFetcher: each has its  *)
(* own fetch_price frame (code, security_type, target_date, attempt are    *)
(* locals of the call), all read the one fetcher (self)                    *)
(***************************************************************************)
\* the calls made at the same time, and what the quote provider answers to them
ConcurrentCalls ==
    {[code |-> <<"7", "2", "0", "3", ".", "T">>, security_type |-> "JP_STOCK"],
     [code |-> <<"1", "2", "3", "4", "5", "6", "7", "8">>, security_type |-> "JP_MUTUALFUND"],
     [code |-> <<"B", "T", "C">>, security_type |-> "CRYPTO"]}
ConcurrentAnswers ==
    {[hist |-> [k |-> "raise"], info |-> NoInfo, page |-> NoPage, csvr |-> NoCsv],
     [hist |-> [k |-> "empty"], info |-> NoInfo, page |-> NoPage, csvr |-> NoCsv],
     [hist |-> [k |-> "rows", close |-> 2500000], info |-> [k |-> "raise"],
      page |-> NoPage, csvr |-> NoCsv]}

\* lines 22-34: the adapter run of one iteration, the upstream answering ans
Dispatch(frame, ans) ==
    IF frame.security_type = "JP_STOCK"
    THEN _fetch_japanese_stock(frame.code, frame.target_date, ans.hist, ans.info)
    ELSE IF frame.security_type = "US_STOCK"
    THEN _fetch_us_stock(frame.code, frame.target_date, ans.hist, ans.info)
    ELSE IF frame.security_type = "JP_MUTUALFUND"
    THEN _fetch_japanese_mutual_fund(frame.code, frame.target_date, ans.page, ans.csvr)
    ELSE AdapterReturn(ErrorDict(DASH, DASH, DASH, MsgUnknownType), <<>>)

\* lines 20-45: the frame after one iteration of the loop, self being f
FetchPriceStep(f, frame, ans) ==
    LET r == Dispatch(frame, ans)
        e == ExceptClause(f, frame.attempt)
        asked_ == [frame EXCEPT !.answers = Append(@, ans)]
    IN  IF r.out = "return"
        THEN [asked_ EXCEPT !.pc = "returned", !.ret = [k |-> "dict", v |-> r.rec]]
        ELSE IF e.do = "sleep"
        THEN [asked_ EXCEPT !.attempt = @ + 1]
        ELSE [asked_ EXCEPT !.pc = "returned", !.ret = [k |-> "dict", v |-> e.rec]]

\* line 18: resolution i calls fetch_price
ResolveCall(i) ==
    /\ frames[i].pc = "idle"
    /\ \E c \in ConcurrentCalls, d \in Dates :
        frames' = [frames EXCEPT ![i] =
                    [IdleFrame EXCEPT !.pc = "attempt", !.code = c.code,
                                      !.security_type = c.security_type, !.target_date = d]]
    /\ UNCHANGED <<op, pc, fetcher, submitted, securities, target_date, idx, results,
                   files, call, ret, trace, asked>>

\* faulty variant of ResolveAttempt: a failed attempt is counted on the fetcher
ResolveAttempt_CountOnSelf(i) ==
    /\ frames[i].pc = "attempt"
    /\ \E ans \in ConcurrentAnswers :
        /\ frames' = [frames EXCEPT ![i] = FetchPriceStep(fetcher, @, ans)]
        /\ fetcher' = IF Dispatch(frames[i], ans).out = "raise" /\ fetcher.max_retries > 1
                      THEN [fetcher EXCEPT !.max_retries = @ - 1]
                      ELSE fetcher
    /\ UNCHANGED <<op, pc, submitted, securities, target_date, idx, results,
                   files, call, ret, trace, asked>>

\* lines 20-45: resolution i runs one iteration of its loop
ResolveAttempt(i) ==
    /\ frames[i].pc = "attempt"
    /\ \E ans \in ConcurrentAnswers :
        frames' = [frames EXCEPT ![i] = FetchPriceStep(fetcher, @, ans)]
    /\ UNCHANGED <<op, pc, fetcher, submitted, securities, target_date, idx, results,
                   files, call, ret, trace, asked>>

ConcurrentNext == \E i \in 1..MaxResolutions : ResolveCall(i) \/ ResolveAttempt(i)

ConcurrentSpec == Init /\ [][ConcurrentNext]_vars

(***************************************************************************)
(* What the claims speak of                                                *)
(***************************************************************************)
KnownTypes == {"JP_STOCK", "US_STOCK", "JP_MUTUALFUND"}
StockAdapters == {"_fetch_japanese_stock", "_fetch_us_stock"}
FundAdapter == "_fetch_japanese_mutual_fund"

\* a fetch_price call is running or has ended
InFetchPrice == pc \in {"attempt", "returned"} /\ op # "classify_security"
\* the last fetch_price call has ended and nothing was done since
Returned == pc = "returned" /\ op # "classify_security"

\* the upstream requests of a whole trace, in order
RECURSIVE Requests(_)
Requests(tr) == IF tr = <<>> THEN <<>> ELSE Head(tr).reqs \o Requests(Tail(tr))
Sleeps(tr) == Cardinality({i \in 1..Len(tr) : tr[i].slept})

HasError(rec) == "error" \in DOMAIN rec
Sentinels(rec) == rec.price = DASH /\ rec.currency = DASH
IsPriceRecord(rec) == {"name", "price", "currency"} \subseteq DOMAIN rec

(***************************************************************************)
(* C1: fetch_price never raises and always ends with a price record: for   *)
(* every code, every security type and every run of upstream answers, a    *)
(* call that has ended gave back a dict with name, price and currency      *)
(* (never an exception, never None), and a call that has not ended is in   *)
(* one of at most max_retries attempts and can take its next step.         *)
(***************************************************************************)
C1_ResolveNeverRaises ==
    /\ Returned => ret.k = "dict" /\ IsPriceRecord(ret.v)
    /\ (pc = "attempt") =>
        /\ call.attempt < fetcher.max_retries
        /\ Len(trace) = call.attempt
        /\ ENABLED Running

\* three attempts, two ended by an exception and the third by a timeout
C1_Witness ==
    /\ Returned
    /\ Len(trace) = 3
    /\ trace[1].out = "raise"
    /\ trace[2].out = "raise"
    /\ trace[3].reqs = <<Req("page", "Timeout", 0)>>
    /\ HasError(ret.v)

(***************************************************************************)
(* C2: an attempt in which the quote provider gives no row for the window  *)
(* is the last attempt of the call: the stock adapter made that one        *)
(* history request and nothing else, no sleep follows it, and fetch_price   *)
(* gives back the no-data error record with the placeholder price and      *)
(* currency.  When the first answer is empty, the whole call made exactly  *)
(* one upstream request and slept zero times.                              *)
(***************************************************************************)
NoDataRecord == ErrorDict(DASH, DASH, DASH, MsgNoData)

MetEmptyHistory(entry) ==
    \E j \in 1..Len(entry.reqs) : entry.reqs[j].req = "history" /\ entry.reqs[j].res = "empty"

C2_EmptyHistoryNoRetry ==
    \A i \in 1..Len(trace) :
        MetEmptyHistory(trace[i]) =>
            /\ i = Len(trace)
            /\ call.attempt = i - 1
            /\ pc # "attempt"
            /\ trace[i].reqs = <<Req("history", "empty", 0)>>
            /\ trace[i].out = "return"
            /\ ~trace[i].slept
            /\ ret = [k |-> "dict", v |-> NoDataRecord]
            /\ HasError(ret.v) /\ Sentinels(ret.v)
            /\ (i = 1 => Len(Requests(trace)) = 1 /\ Sleeps(trace) = 0)

\* the first answer of the provider is empty and the call has ended
C2_Witness ==
    /\ Returned
    /\ call.security_type = "JP_STOCK"
    /\ Len(trace) = 1
    /\ MetEmptyHistory(trace[1])

(***************************************************************************)
(* C3: while every attempt so far ended by an exception the call goes on   *)
(* to the next attempt, until the third: after exactly 3 adapter runs that *)
(* all raised, fetch_price gives back an error record with the placeholder *)
(* price and currency whose message holds the attempt count 3.             *)
(***************************************************************************)
AllRaised(tr) == tr # <<>> /\ \A i \in 1..Len(tr) : tr[i].out = "raise"

C3_ThreeAttemptsThenError ==
    AllRaised(trace) =>
        /\ Len(trace) <= 3
        /\ Len(trace) < 3 => pc = "attempt" /\ call.attempt = Len(trace)
        /\ Len(trace) = 3 =>
            /\ pc # "attempt"
            /\ ret.k = "dict"
            /\ HasError(ret.v) /\ Sentinels(ret.v)
            /\ Contains(ret.v.error, <<"3">>)
            /\ ret.v.error = MsgRetriesExhausted(3)

\* the quote provider raised on each of three attempts
C3_Witness ==
    /\ Returned
    /\ Len(trace) = 3
    /\ \A i \in 1..3 :
        /\ trace[i].adapter = "_fetch_japanese_stock"
        /\ trace[i].reqs = <<Req("history", "raise", 0)>>

(***************************************************************************)
(* C4: every record fetch_price gives back that has an error field has the *)
(* placeholder price and the placeholder currency.                         *)
(***************************************************************************)
C4_ErrorImpliesSentinels ==
    (Returned /\ ret.k = "dict" /\ HasError(ret.v)) => Sentinels(ret.v)

(***************************************************************************)
(* C5: every record fetch_price gives back that has no error field has a   *)
(* price that reads as a number greater than 0 and the currency JPY or USD. *)
(***************************************************************************)
\* whether a price string (digits, with an optional sign and decimal point)
\* reads as a number greater than 0
ReadsPositive(price) ==
    /\ price # <<>>
    /\ \A i \in 1..Len(price) : price[i] \in AsciiDigits \cup {"."} \/ (i = 1 /\ price[i] = "-")
    /\ Cardinality({i \in 1..Len(price) : price[i] = "."}) <= 1
    /\ price[1] # "-"
    /\ \E i \in 1..Len(price) : price[i] \in AsciiDigits \ {"0"}

C5_SuccessPricePositive ==
    (Returned /\ ret.k = "dict" /\ ~HasError(ret.v)) =>
        /\ ReadsPositive(ret.v.price)
        /\ ret.v.currency \in {JPY, USD}

(***************************************************************************)
(* C6: every code of 12 characters made of JP and 10 characters that are   *)
(* digits or capital letters is classified JP_MUTUALFUND.                  *)
(***************************************************************************)
IsinShape(code) ==
    /\ Len(code) = 12
    /\ SubSeq(code, 1, 2) = <<"J", "P">>
    /\ \A i \in 3..12 : code[i] \in AsciiDigits \cup UpperLetters

C6_IsinIsMutualFund ==
    (ret.k = "type" /\ IsinShape(ret.code)) => ret.v = "JP_MUTUALFUND"

(***************************************************************************)
(* C7: a code is classified JP_STOCK exactly when it is 4 decimal digits,  *)
(* a dot and one of T, O, N, F, S (a decimal digit being what Python's \d  *)
(* takes for one).                                                         *)
(***************************************************************************)
DecimalDigits == AsciiDigits \cup {FullwidthSeven}
JpStockShape(code) ==
    /\ Len(code) = 6
    /\ {code[1], code[2], code[3], code[4]} \subseteq DecimalDigits
    /\ code[5] = "."
    /\ code[6] \in {"T", "O", "N", "F", "S"}

C7_JpStockExactly ==
    /\ ret.k = "type" => (ret.v = "JP_STOCK" <=> JpStockShape(ret.code))
    /\ (op \in {"fetch_prices", "download_ofx"} /\ pc \in {"attempt", "returned"}) =>
            (call.security_type = "JP_STOCK" <=> JpStockShape(securities[idx]))

\* a code of the JP_STOCK form has been classified
C7_Witness ==
    /\ ret.k = "type"
    /\ ret.code = <<"7", "2", "0", "3", ".", "S">>
    /\ ret.v = "JP_STOCK"

(***************************************************************************)
(* C8: a code that classify_security tags INVALID is dealt with in one     *)
(* step of the route's loop that runs no adapter and makes no upstream     *)
(* request: fetch_prices appends the invalid-format row with the           *)
(* placeholder price and currency, download_ofx adds nothing, and          *)
(* fetch_price is never called for such a code.  fetch_price given a type  *)
(* other than JP_STOCK, US_STOCK, JP_MUTUALFUND returns at once the        *)
(* unknown-type error record with the placeholder price and currency,     *)
(* having run no adapter and made no request.                              *)
(***************************************************************************)
InRoute == op \in {"fetch_prices", "download_ofx"}
AtInvalidCode ==
    /\ InRoute
    /\ pc = "loop"
    /\ idx <= Len(securities)
    /\ classify_security(securities[idx]) = "INVALID"
InvalidRow(security) ==
    ResultRow(security, Strip(submitted.date), DASH, DASH, DASH, Some(MsgInvalidCode))

C8_InvalidStep ==
    AtInvalidCode =>
        /\ pc' = "loop"
        /\ idx' = idx + 1
        /\ trace' = trace
        /\ call' = call
        /\ ret' = ret
        /\ op = "fetch_prices" => results' = Append(results, InvalidRow(securities[idx]))
        /\ op = "download_ofx" => results' = results

C8_UnknownType ==
    /\ (InRoute /\ InFetchPrice) =>
        /\ call.security_type \in KnownTypes
        /\ classify_security(securities[idx]) # "INVALID"
    /\ (InFetchPrice /\ call.security_type \notin KnownTypes) =>
        /\ pc = "attempt" => trace = <<>>
        /\ pc = "returned" =>
            /\ trace = <<[adapter |-> "none", reqs |-> <<>>, out |-> "return",
                          gave |-> Some(ErrorDict(DASH, DASH, DASH, MsgUnknownType)),
                          slept |-> FALSE]>>
            /\ ret = [k |-> "dict", v |-> ErrorDict(DASH, DASH, DASH, MsgUnknownType)]
            /\ HasError(ret.v) /\ Sentinels(ret.v)

C8_InvalidNoAdapter == [][C8_InvalidStep]_vars /\ []C8_UnknownType

\* fetch_prices has priced one code and then met an INVALID one
C8_Witness ==
    /\ op = "fetch_prices"
    /\ pc = "loop"
    /\ idx = 3
    /\ classify_security(securities[2]) = "INVALID"
    /\ results[2] = InvalidRow(securities[2])
    /\ results[1].error = None
    /\ Requests(trace) # <<>>

(***************************************************************************)
(* C9 as stated: every network fault met by an adapter (the quote provider *)
(* raising, a timeout, a connection failure or a response other than 200   *)
(* of the page or of the download) ends the adapter run by an exception    *)
(* that fetch_price sees, and fetch_price retries unless it was attempt 3. *)
(***************************************************************************)
IsNetworkFault(r) ==
    /\ r.req \in {"history", "page", "csv"}
    /\ \/ r.res \in {"raise", "Timeout", "RequestException"}
       \/ r.res = "response" /\ r.status # 200
MetNetworkFault(entry) == \E j \in 1..Len(entry.reqs) : IsNetworkFault(entry.reqs[j])

LastReq(entry) == entry.reqs[Len(entry.reqs)]
ExhaustedRecord == ErrorDict(DASH, DASH, DASH, MsgRetriesExhausted(3))

C9_SeenAndRetried(i) ==
    /\ trace[i].out = "raise"
    /\ trace[i].slept <=> i < 3
    /\ i <= 3
    /\ i < 3 => (Len(trace) > i \/ (pc = "attempt" /\ call.attempt = i))
    /\ (i = 3 /\ Len(trace) = 3) => ret = [k |-> "dict", v |-> ExhaustedRecord]

C9_ReturnedNotRetried(i) ==
    /\ trace[i].out = "return"
    /\ ~trace[i].slept
    /\ i = Len(trace)
    /\ pc # "attempt"
    /\ ret.k = "dict"
    /\ HasError(ret.v)

PageNot200(entry) ==
    /\ entry.adapter = FundAdapter
    /\ entry.reqs # <<>>
    /\ entry.reqs[1].req = "page"
    /\ entry.reqs[1].res = "response"
    /\ entry.reqs[1].status # 200

C10_PageStatusError ==
    \A i \in 1..Len(trace) :
        PageNot200(trace[i]) =>
            /\ Len(trace[i].reqs) = 1
            /\ ~(\E j \in 1..Len(trace[i].reqs) : trace[i].reqs[j].req = "csv")
            /\ trace[i].out = "return"
            /\ i = Len(trace)
            /\ pc # "attempt"
            /\ ret.k = "dict"
            /\ HasError(ret.v) /\ Sentinels(ret.v)
            /\ Contains(ret.v.error, StrOfNat(trace[i].reqs[1].status))
            /\ ret.v.name = FundLabel(call.code)

\* the page of a valid ISIN answered 404
C10_Witness ==
    /\ Returned
    /\ IsinShape(call.code)
    /\ Len(trace) = 1
    /\ PageNot200(trace[1])
    /\ trace[1].reqs[1].status = 404
    /\ Contains(ret.v.error, <<"4", "0", "4">>)

(***************************************************************************)
(* C11: when the code given to the mutual-fund adapter is not 12           *)
(* characters made of JP and 10 digits or capital letters, the adapter     *)
(* run makes no upstream request (neither the page nor the download) and   *)
(* returns the format-error record, with the fund label as name and the    *)
(* placeholder price and currency; it is the only adapter run of the call  *)
(* and fetch_price returns that record.                                    *)
(***************************************************************************)
BadIsinRecord(code) == ErrorDict(FundLabel(code), DASH, DASH, MsgBadIsin)

C11_BadIsinNoRequest ==
    \A i \in 1..Len(trace) :
        (trace[i].adapter = FundAdapter /\ ~IsinShape(call.code)) =>
            /\ trace[i].reqs = <<>>
            /\ trace[i].out = "return"
            /\ ~trace[i].slept
            /\ Len(trace) = 1
            /\ pc # "attempt"
            /\ ret = [k |-> "dict", v |-> BadIsinRecord(call.code)]
            /\ HasError(ret.v) /\ Sentinels(ret.v)

\* fetch_prices has handed the 8-digit code, classified JP_MUTUALFUND, to the adapter
C11_Witness ==
    /\ op = "fetch_prices"
    /\ Returned
    /\ call.code = <<"1", "2", "3", "4", "5", "6", "7", "8">>
    /\ call.security_type = "JP_MUTUALFUND"
    /\ trace = <<[adapter |-> FundAdapter, reqs |-> <<>>, out |-> "return",
                  gave |-> Some(BadIsinRecord(call.code)), slept |-> FALSE]>>
    /\ ret.v.error = MsgBadIsin

(***************************************************************************)
(* C12: for a code of the ISIN shape, when the detail page answers 200 and *)
(* holds an association code, the download answers 200 and its table has, *)
(* after the header row, a row whose date cell is the target date (written *)
(* with slashes or with kanji) and whose NAV cell is decimal digits with   *)
(* thousands separators, the adapter returns the record with the fund name,*)
(* currency JPY, no error, and as price the digits of the NAV cell of the  *)
(* first such row, separators removed (NAV 12,345 gives price 12345).      *)
(***************************************************************************)
CsvParsed ==
    /\ op = "fetch_price"
    /\ pc = "returned"
    /\ asked.k = "fund"
    /\ IsinShape(call.code)
    /\ asked.page.k = "response" /\ asked.page.status = 200
    /\ AssocFundCd(asked.page.soup) # None
    /\ asked.csvr.k = "response" /\ asked.csvr.status = 200
    /\ asked.csvr.csv.k = "rows"

\* the digits of a NAV cell, thousands separators and surrounding blanks removed
NavDigits(cell) == Strip(RemoveChar(cell, ","))
\* the same digits written in ASCII
InAscii(s) == [i \in 1..Len(s) |-> IF s[i] = FullwidthSeven THEN "7" ELSE s[i]]

\* row i of the table comes after the header, is dated the target date and has
\* a NAV cell of decimal digits
NavRowAt(all_rows, i, d) ==
    /\ i > HeaderIdx(all_rows)
    /\ Len(all_rows[i]) >= DateCol(all_rows)
    /\ Len(all_rows[i]) >= NavCol(all_rows)
    /\ Strip(all_rows[i][DateCol(all_rows)]) \in {StrftimeSlash(d), StrftimeKanji(d)}
    /\ NavDigits(all_rows[i][NavCol(all_rows)]) # <<>>
    /\ \A j \in 1..Len(NavDigits(all_rows[i][NavCol(all_rows)])) :
            NavDigits(all_rows[i][NavCol(all_rows)])[j] \in DecimalDigits

NavRows(all_rows, d) == {i \in 1..Len(all_rows) : NavRowAt(all_rows, i, d)}
FirstNavRow(all_rows, d) ==
    all_rows[CHOOSE i \in NavRows(all_rows, d) : \A j \in NavRows(all_rows, d) : i <= j]

C12_CsvNavReturned ==
    (CsvParsed /\ NavRows(asked.csvr.csv.rows, target_date) # {}) =>
        LET all_rows == asked.csvr.csv.rows
            cell == FirstNavRow(all_rows, target_date)[NavCol(all_rows)]
        IN  /\ ret.k = "dict"
            /\ ~HasError(ret.v)
            /\ ret.v.name = FundName(asked.page.soup, call.code)
            /\ ret.v.price = InAscii(NavDigits(cell))
            /\ ret.v.currency = JPY
            /\ Len(trace) = 1 /\ trace[1].out = "return"

\* the table has a header and the row of 2024-01-05, dated in kanji, NAV 9,876
C12_Witness ==
    /\ CsvParsed
    /\ target_date = [y |-> 2024, m |-> 1, d |-> 5]
    /\ Len(asked.csvr.csv.rows) = 3
    /\ HeaderIdx(asked.csvr.csv.rows) = 1
    /\ NavRows(asked.csvr.csv.rows, target_date) = {3}
    /\ ret.v.price = <<"9", "8", "7", "6">>
    /\ ret.v.currency = JPY
    /\ ~HasError(ret.v)

\* the row of 2024-01-15 with NAV 12,345 gives the price 12345
C12_Scenario ==
    /\ CsvParsed
    /\ call.code = <<"J", "P", "1", "2", "3", "4", "5", "6", "7", "8", "9", "0">>
    /\ target_date = [y |-> 2024, m |-> 1, d |-> 15]
    /\ NavRows(asked.csvr.csv.rows, target_date) # {}
    /\ FirstNavRow(asked.csvr.csv.rows, target_date)[NavCol(asked.csvr.csv.rows)]
            = <<"1", "2", ",", "3", "4", "5">>
    /\ ret.v = PriceDict(ret.v.name, <<"1", "2", "3", "4", "5">>, JPY)

(***************************************************************************)
(* C13: the results of fetch_prices hold one row per submitted code that   *)
(* is not blank, in the order the user typed them: while the loop runs the *)
(* rows are those of the codes already dealt with, and when the page is    *)
(* rendered there is exactly one row per code, row i being the row of the  *)
(* i-th code, whether the code was invalid, gave an error or gave a price. *)
(***************************************************************************)
NotBlank(piece) == Strip(piece) # <<>>
\* the codes the user typed, between commas, the blank ones left out
SubmittedCodes(securities_str) ==
    LET typed == SelectSeq(Split(securities_str, ","), NotBlank)
    IN  [i \in 1..Len(typed) |-> Upper(Strip(typed[i]))]

C13_OneRowPerCodeInOrder ==
    (op = "fetch_prices" /\ pc \in {"loop", "attempt", "returned", "rendered"}) =>
        /\ securities = SubmittedCodes(submitted.securities)
        /\ pc = "rendered" => Len(results) = Len(securities)
        /\ pc \in {"attempt", "returned"} => Len(results) = idx - 1
        /\ pc = "loop" => Len(results) = idx - 1
        /\ \A i \in 1..Len(results) : results[i].input_code = securities[i]

\* an invalid code and a priced one, typed in this order, and the same code twice
C13_Witness ==
    /\ op = "fetch_prices"
    /\ pc = "rendered"
    /\ Len(results) = 2
    /\ results[1].input_code = <<"I", "N", "V", "A", "L", "I", "D", "C", "O", "D", "E", "!">>
    /\ results[1].error = Some(MsgInvalidCode)
    /\ results[2].input_code = <<"7", "2", "0", "3", ".", "T">>
    /\ results[2].error = None

(***************************************************************************)
(* C14: in the equity adapters, when the history gives a close price and   *)
(* reading the name (ticker.info) raises, the adapter returns the record   *)
(* with that price to two decimals, the code as name, the currency of the  *)
(* adapter and no error; the attempt is the only one, no sleep follows it  *)
(* and fetch_price returns that record.                                    *)
(***************************************************************************)
NameLookupFailed ==
    /\ op = "fetch_price"
    /\ pc # "idle"
    /\ asked.k = "stock"
    /\ asked.hist.k = "rows"
    /\ asked.info.k = "raise"

C14_NameFailureKeepsPrice ==
    NameLookupFailed =>
        /\ pc = "returned"
        /\ trace = <<[adapter |-> trace[1].adapter,
                      reqs |-> <<Req("history", "rows", 0), Req("info", "raise", 0)>>,
                      out |-> "return", gave |-> Some(ret.v), slept |-> FALSE]>>
        /\ call.attempt = 0
        /\ ret.k = "dict"
        /\ ~HasError(ret.v)
        /\ ret.v.name = call.code
        /\ ret.v.price = Format2f(asked.hist.close)
        /\ ret.v.currency = (IF call.security_type = "JP_STOCK" THEN JPY ELSE USD)

\* close 2500.0 of 7203.T as a US_STOCK, the name lookup raising
C14_Witness ==
    /\ NameLookupFailed
    /\ call.security_type = "US_STOCK"
    /\ asked.hist.close = 2500000
    /\ ret.v = PriceDict(call.code, <<"2", "5", "0", "0", ".", "0", "0">>, USD)

(***************************************************************************)
(* C15: an equity record with a price carries the currency of the          *)
(* instrument type alone (JPY for JP_STOCK, USD for US_STOCK, whatever the *)
(* code and whatever the provider gives), as name the provider's long      *)
(* name, else its short name, else the code (a name that is missing or     *)
(* empty, or a lookup that raises, counts as absent), the close to two     *)
(* decimals as price, and no error.                                        *)
(***************************************************************************)
StockPriced ==
    /\ op = "fetch_price"
    /\ pc # "idle"
    /\ asked.k = "stock"
    /\ asked.hist.k = "rows"

HasName(info, field) == info.k = "dict" /\ info[field] # None /\ info[field] # Some(<<>>)
ProviderName(info, code) ==
    IF HasName(info, "longName") THEN info.longName[1]
    ELSE IF HasName(info, "shortName") THEN info.shortName[1]
    ELSE code

C15_EquityRecord ==
    StockPriced =>
        /\ pc = "returned"
        /\ ret = [k |-> "dict",
                  v |-> [name |-> ProviderName(asked.info, call.code),
                         price |-> Format2f(asked.hist.close),
                         currency |-> IF call.security_type = "JP_STOCK" THEN JPY ELSE USD]]
        /\ ~HasError(ret.v)

\* 7203.T, close 2500.0, long name Toyota Motor
C15_Witness ==
    /\ StockPriced
    /\ call.code = <<"7", "2", "0", "3", ".", "T">>
    /\ call.security_type = "JP_STOCK"
    /\ asked.hist.close = 2500000
    /\ asked.info.k = "dict"
    /\ asked.info.longName = Some(<<"Toyota Motor">>)
    /\ ret.v = PriceDict(<<"Toyota Motor">>, <<"2", "5", "0", "0", ".", "0", "0">>, JPY)

\* a JP_STOCK whose code has no market suffix, short name only: JPY all the same
C15_WitnessShortName ==
    /\ StockPriced
    /\ call.code = <<"1", "2", "3", "4", "5", "6", "7", "8">>
    /\ call.security_type = "JP_STOCK"
    /\ asked.info.k = "dict"
    /\ asked.info.longName = Some(<<>>)
    /\ ret.v.name = <<"TOYOTA">>
    /\ ret.v.currency = JPY

(***************************************************************************)
(* C16: download_ofx collects, in submission order, the record of every    *)
(* submitted code whose type is not INVALID and whose resolution has no    *)
(* error and a price that is present and not the placeholder, and of no   *)
(* other code: each step of its loop appends the record of the code it is  *)
(* at when the resolution is such, and leaves the collection alone         *)
(* otherwise.  The collection is what is handed to OFX generation: every   *)
(* collected record is in exactly one file, in the collected order, and    *)
(* every record of a file has the currency the file is named after.        *)
(***************************************************************************)
Exportable(rec) == ~HasError(rec) /\ rec.price # <<>> /\ rec.price # DASH

C16_CollectStep ==
    (op = "download_ofx" /\ pc = "returned") =>
        /\ ret.k = "dict"
        /\ call.code = securities[idx]
        /\ call.security_type = classify_security(securities[idx])
        /\ call.security_type # "INVALID"
        /\ idx' = idx + 1
        /\ results' =
            IF Exportable(ret.v)
            THEN Append(results, [code |-> securities[idx], name |-> ret.v.name,
                                  price |-> ret.v.price, currency |-> ret.v.currency,
                                  type |-> call.security_type])
            ELSE results

C16_OtherSteps ==
    (op = "download_ofx" /\ pc # "returned") => results' = results

C16_Files ==
    (op = "download_ofx" /\ pc = "sent") =>
        /\ results # <<>>
        /\ \A i \in 1..Len(results) : results[i].currency \in {JPY, USD}
        /\ \A f \in 1..Len(files) :
            /\ files[f].records # <<>>
            /\ files[f].records = SelectSeq(results, LAMBDA r : r.currency = files[f].suffix)
        /\ \A c \in {JPY, USD} :
            (\E i \in 1..Len(results) : results[i].currency = c)
                => Cardinality({f \in 1..Len(files) : files[f].suffix = c}) = 1

C16_ExportedRecords ==
    [][C16_CollectStep /\ C16_OtherSteps]_vars /\ []C16_Files

\* 7203.T and AAPL, both priced: one file per currency
C16_Witness ==
    /\ op = "download_ofx"
    /\ pc = "sent"
    /\ Len(results) = 2
    /\ Len(files) = 2
    /\ files[1].suffix = JPY /\ files[1].records = <<results[1]>>
    /\ files[2].suffix = USD /\ files[2].records = <<results[2]>>
    /\ results[2].code = <<"A", "A", "P", "L">>

(***************************************************************************)
(* C17: classify_security tries its rules in order (JP stock, 8-character  *)
(* alphanumeric fund code, 6-to-8-digit fund code, US ticker) and the      *)
(* first that matches decides.  A code of 1 to 10 characters that starts   *)
(* with a capital letter and goes on with capital letters, digits, '.' or  *)
(* '-' is US_STOCK exactly when no earlier rule matches it (when it is 8   *)
(* letters and digits it is JP_MUTUALFUND); nothing else is US_STOCK; a    *)
(* code no rule matches is INVALID.                                        *)
(***************************************************************************)
AlnumChars == AsciiDigits \cup UpperLetters
FundCodeShape(code) ==
    \/ Len(code) = 8 /\ \A i \in 1..8 : code[i] \in AlnumChars
    \/ Len(code) \in 6..8 /\ \A i \in 1..Len(code) : code[i] \in DecimalDigits
UsTickerShape(code) ==
    /\ Len(code) \in 1..10
    /\ code[1] \in UpperLetters
    /\ \A i \in 2..Len(code) : code[i] \in AlnumChars \cup {".", "-"}

C17_FirstMatchWins ==
    ret.k = "type" =>
        /\ ret.v \in {"JP_STOCK", "JP_MUTUALFUND", "US_STOCK", "INVALID"}
        /\ ret.v = "JP_STOCK" <=> JpStockShape(ret.code)
        /\ ret.v = "JP_MUTUALFUND" <=> (~JpStockShape(ret.code) /\ FundCodeShape(ret.code))
        /\ ret.v = "US_STOCK" <=>
            (UsTickerShape(ret.code) /\ ~JpStockShape(ret.code) /\ ~FundCodeShape(ret.code))
        /\ ret.v = "INVALID" <=>
            ~(JpStockShape(ret.code) \/ FundCodeShape(ret.code) \/ UsTickerShape(ret.code))

\* an 8-character ticker of letters and digits is taken for a fund code
C17_Witness ==
    /\ ret.k = "type"
    /\ ret.code = <<"A", "B", "1", "2", "C", "D", "3", "4">>
    /\ UsTickerShape(ret.code)
    /\ ret.v = "JP_MUTUALFUND"

\* BRK.B is a US ticker
C17_WitnessUs ==
    /\ ret.k = "type"
    /\ ret.code = <<"B", "R", "K", ".", "B">>
    /\ ret.v = "US_STOCK"

(***************************************************************************)
(* C18: in the mutual-fund adapter, when the detail page (status 200) holds *)
(* no association code, the record returned is the one the latest-value    *)
(* scrape of that page gives and the page is the only request made; when   *)
(* the download (status 200) gives an empty table, or a table that cannot  *)
(* be parsed, the record returned is again the one the latest-value scrape *)
(* of the page gives, and no request follows the download.                 *)
(***************************************************************************)
PageFetched ==
    /\ op = "fetch_price"
    /\ pc # "idle"
    /\ asked.k = "fund"
    /\ IsinShape(call.code)
    /\ asked.page.k = "response"
    /\ asked.page.status = 200

NoAssocCode == PageFetched /\ asked.page.soup.linkCd = None /\ asked.page.soup.rawCd = None

TableUnusable ==
    /\ PageFetched
    /\ ~NoAssocCode
    /\ asked.csvr.k = "response"
    /\ asked.csvr.status = 200
    /\ \/ asked.csvr.csv.k = "error"
       \/ asked.csvr.csv.k = "rows" /\ asked.csvr.csv.rows = <<>>

LatestValueScrape ==
    _fetch_latest_nav_from_page(asked.page.soup, call.code,
                                FundName(asked.page.soup, call.code), target_date)

C18_FallbackToLatest ==
    /\ NoAssocCode =>
        /\ pc = "returned"
        /\ ret = [k |-> "dict", v |-> LatestValueScrape]
        /\ trace = <<[adapter |-> FundAdapter, reqs |-> <<Req("page", "response", 200)>>,
                      out |-> "return", gave |-> Some(LatestValueScrape), slept |-> FALSE]>>
    /\ TableUnusable =>
        /\ pc = "returned"
        /\ ret = [k |-> "dict", v |-> LatestValueScrape]
        /\ trace = <<[adapter |-> FundAdapter,
                      reqs |-> <<Req("page", "response", 200), Req("csv", "response", 200)>>,
                      out |-> "return", gave |-> Some(LatestValueScrape), slept |-> FALSE]>>

\* the table is empty and the page shows 12,345 next to the label
C18_Witness ==
    /\ TableUnusable
    /\ asked.csvr.csv.k = "rows"
    /\ asked.page.soup.nav1 = <<<<"1", "2", ",", "3", "4", "5">>>>
    /\ ret.v.price = <<"1", "2", "3", "4", "5">>
    /\ ret.v.error = MsgLatestNav

\* the page holds no association code and no value: the scrape fails
C18_WitnessNoCode ==
    /\ NoAssocCode
    /\ asked.csvr = NoCsv
    /\ ret.v.error = MsgNavFailed

(***************************************************************************)
(* C19: in the latest-value scrape, the value looked at is the first one   *)
(* the first pattern finds, and the first one of the second pattern only   *)
(* when the first pattern finds nothing.  When that value is a number      *)
(* greater than 100 and less than 1000000 the record returned has it as    *)
(* price (separators removed), currency JPY, the fund name and the warning *)
(* that it is the latest NAV; in every other case (nothing found, a value  *)
(* without digits, a number outside that range) the record returned is     *)
(* the 'NAV retrieval failed' error record with placeholder price and      *)
(* currency.                                                               *)
(***************************************************************************)
ScrapeRan ==
    /\ PageFetched
    /\ pc = "returned"
    /\ \/ NoAssocCode
       \/ TableUnusable
       \/ asked.csvr.k = "response" /\ asked.csvr.status # 200

ValuesFound(soup) == soup.nav1 \o soup.nav2
ValueRead(soup) == IF soup.nav1 # <<>> THEN soup.nav1[1] ELSE soup.nav2[1]
IsNumber(s) == s # <<>> /\ \A i \in 1..Len(s) : s[i] \in AsciiDigits
InRange(soup) ==
    /\ ValuesFound(soup) # <<>>
    /\ IsNumber(NavDigits(ValueRead(soup)))
    /\ 100 < IntOf(NavDigits(ValueRead(soup)))
    /\ IntOf(NavDigits(ValueRead(soup))) < 1000000

C19_LatestValueInRange ==
    ScrapeRan =>
        LET soup == asked.page.soup
            fund_name == FundName(soup, call.code)
        IN  ret.v = IF InRange(soup)
                    THEN [name |-> fund_name, price |-> NavDigits(ValueRead(soup)),
                          currency |-> JPY, error |-> MsgLatestNav]
                    ELSE [name |-> fund_name, price |-> DASH, currency |-> DASH,
                          error |-> MsgNavFailed]

\* the claim as stated: a value found by either pattern is returned, and the
\* scrape fails only when neither pattern finds a value
C19_FoundValueReturned ==
    ScrapeRan =>
        LET soup == asked.page.soup
        IN  /\ ValuesFound(soup) # <<>> =>
                /\ ret.v.error = MsgLatestNav
                /\ ret.v.currency = JPY
                /\ \E i \in 1..Len(ValuesFound(soup)) : ret.v.price = NavDigits(ValuesFound(soup)[i])
            /\ ret.v.error = MsgNavFailed => ValuesFound(soup) = <<>>

\* only the second pattern finds a value, 9,876
C19_Witness ==
    /\ ScrapeRan
    /\ asked.page.soup.nav1 = <<>>
    /\ asked.page.soup.nav2 = <<<<"9", ",", "8", "7", "6">>>>
    /\ ret.v.price = <<"9", "8", "7", "6">>
    /\ ret.v.currency = JPY
    /\ ret.v.error = MsgLatestNav

\* the first pattern finds 50: the scrape fails
C19_WitnessOutOfRange ==
    /\ ScrapeRan
    /\ asked.page.soup.nav1 = <<<<"5", "0">>>>
    /\ ret.v.error = MsgNavFailed
    /\ Sentinels(ret.v)

(***************************************************************************)
(* C20: resolutions running at the same time on one PriceFetcher share     *)
(* nothing they write.  The fetcher keeps max_retries = 3 and              *)
(* retry_delay = 1; a step of one resolution changes no other resolution's *)
(* frame; and in every interleaving each resolution is, at every moment,   *)
(* where it would be had it run alone with the same upstream answers: the  *)
(* same record returned, after the same number of attempts.                *)
(***************************************************************************)
\* fetch_price run alone on a fetcher f, from frame on, the upstream giving answers
RECURSIVE RunAlone(_, _, _)
RunAlone(f, frame, answers) ==
    IF answers = <<>> \/ frame.pc # "attempt" THEN frame
    ELSE RunAlone(f, FetchPriceStep(f, frame, Head(answers)), Tail(answers))

CalledFrame(frame) ==
    [IdleFrame EXCEPT !.pc = "attempt", !.code = frame.code,
                      !.security_type = frame.security_type, !.target_date = frame.target_date]

C20_SameAsAlone ==
    /\ fetcher = [max_retries |-> 3, retry_delay |-> 1]
    /\ \A i \in 1..MaxResolutions :
        frames[i].pc # "idle" =>
            /\ frames[i] = RunAlone([max_retries |-> 3, retry_delay |-> 1],
                                    CalledFrame(frames[i]), frames[i].answers)
            /\ frames[i].pc = "returned" => Len(frames[i].answers) = frames[i].attempt + 1

C20_OwnFrameOnly ==
    \A i, j \in 1..MaxResolutions :
        (i # j /\ frames'[j] # frames[j]) => frames'[i] = frames[i]

C20_NoSharedState == []C20_SameAsAlone /\ [][C20_OwnFrameOnly]_vars

\* one resolution gave up after 3 attempts while another returned a price at
\* its second attempt
C20_Witness ==
    /\ frames[1].pc = "returned"
    /\ frames[1].attempt = 2
    /\ frames[1].ret.v = ErrorDict(DASH, DASH, DASH, MsgRetriesExhausted(3))
    /\ frames[2].pc = "returned"
    /\ frames[2].attempt = 1
    /\ frames[2].ret.v = PriceDict(frames[2].code, <<"2", "5", "0", "0", ".", "0", "0">>, JPY)

(***************************************************************************)
(* C21: a code that classify_security tags JP_MUTUALFUND never has the     *)
(* ISIN shape, so the mutual-fund adapter, given that code, returns the    *)
(* ISIN format-error record before any request.  In both routes a          *)
(* resolution with the tag JP_MUTUALFUND is one adapter run without any    *)
(* upstream request that returns that record; fetch_prices shows it as a   *)
(* row with placeholder price and currency and download_ofx exports        *)
(* nothing for it.                                                         *)
(***************************************************************************)
C21_Classified ==
    (ret.k = "type" /\ ret.v = "JP_MUTUALFUND") =>
        /\ ~IsinShape(ret.code)
        /\ \A d \in Dates :
            _fetch_japanese_mutual_fund(ret.code, d, NoPage, NoCsv)
                = AdapterReturn(BadIsinRecord(ret.code), <<>>)

C21_Resolved ==
    (InRoute /\ InFetchPrice /\ call.security_type = "JP_MUTUALFUND") =>
        /\ call.code = securities[idx]
        /\ classify_security(call.code) = "JP_MUTUALFUND"
        /\ Requests(trace) = <<>>
        /\ Len(trace) <= 1
        /\ pc = "returned" =>
            /\ trace = <<[adapter |-> FundAdapter, reqs |-> <<>>, out |-> "return",
                          gave |-> Some(BadIsinRecord(call.code)), slept |-> FALSE]>>
            /\ ret = [k |-> "dict", v |-> BadIsinRecord(call.code)]

C21_Shown ==
    /\ op = "fetch_prices" =>
        \A i \in 1..Len(results) :
            classify_security(results[i].input_code) = "JP_MUTUALFUND" =>
                /\ results[i].error = Some(MsgBadIsin)
                /\ results[i].price = DASH
                /\ results[i].currency = DASH
    /\ op = "download_ofx" =>
        \A i \in 1..Len(results) : results[i].type # "JP_MUTUALFUND"

C21_FundCodeNeverFetched == C21_Classified /\ C21_Resolved /\ C21_Shown

\* fetch_prices has shown the row of the 8-digit fund code
C21_Witness ==
    /\ op = "fetch_prices"
    /\ pc = "rendered"
    /\ Len(results) = 2
    /\ results[2].input_code = <<"1", "2", "3", "4", "5", "6", "7", "8">>
    /\ results[2].error = Some(MsgBadIsin)
    /\ results[2].name = FundLabel(results[2].input_code)

\* an 8-character code of letters and digits is tagged JP_MUTUALFUND
C21_WitnessClassified ==
    /\ ret.k = "type"
    /\ ret.v = "JP_MUTUALFUND"
    /\ ret.code = <<"A", "B", "1", "2", "C", "D", "3", "4">>

(***************************************************************************)
(* C22: fetch_price stops at the first attempt in which the adapter        *)
(* returns.  Every attempt but the last one of a call raised and was       *)
(* followed by the retry delay; when the adapter raised k-1 times and      *)
(* returned at attempt k, the call made exactly k adapter runs, took the   *)
(* delay exactly k-1 times and returned the adapter's record as it was.    *)
(* No call makes more than 3 adapter runs or takes the delay more than     *)
(* twice, and no delay follows the last attempt of a call that has ended;  *)
(* a call whose last attempt raised made 3 runs.                           *)
(***************************************************************************)
CallEnded == op \in {"fetch_price", "fetch_prices", "download_ofx"} /\ pc # "attempt" /\ trace # <<>>
CallRunning == op \in {"fetch_price", "fetch_prices", "download_ofx"} /\ pc = "attempt"

C22_StopsAtFirstReturn ==
    /\ Len(trace) <= 3
    /\ Sleeps(trace) <= 2
    /\ \A i \in 1..(Len(trace) - 1) :
        trace[i].out = "raise" /\ trace[i].slept /\ trace[i].gave = None
    /\ CallRunning =>
        /\ call.attempt = Len(trace)
        /\ Sleeps(trace) = Len(trace)
        /\ \A i \in 1..Len(trace) : trace[i].out = "raise"
    /\ CallEnded =>
        LET k == Len(trace)
        IN  /\ ~trace[k].slept
            /\ Sleeps(trace) = k - 1
            /\ call.attempt = k - 1
            /\ trace[k].out = "return" => ret = [k |-> "dict", v |-> trace[k].gave[1]]
            /\ trace[k].out = "raise" => k = 3 /\ ret = [k |-> "dict", v |-> ExhaustedRecord]

\* the provider raised twice and gave a price at the third attempt
C22_Witness ==
    /\ CallEnded
    /\ Len(trace) = 3
    /\ trace[1].out = "raise" /\ trace[2].out = "raise"
    /\ trace[3].out = "return"
    /\ Sleeps(trace) = 2
    /\ ~HasError(ret.v)
    /\ ret.v.price = <<"2", "5", "0", "0", ".", "0", "0">>
    /\ trace[3].gave = Some(ret.v)

\* the adapter returned at the second attempt
C22_WitnessSecond ==
    /\ CallEnded
    /\ Len(trace) = 2
    /\ trace[2].out = "return"
    /\ Sleeps(trace) = 1

(***************************************************************************)
(* C23: in the mutual-fund adapter, once the download has been parsed to a *)
(* table with at least one row, a record with a price is returned only     *)
(* when a row after the header has the target date in its date cell and    *)
(* decimal digits (separators removed) in its NAV cell, and the price is   *)
(* that of the first such row.  When no row is like that, because the date *)
(* is absent or because the dated rows have a NAV that is not a number,    *)
(* the adapter returns the date-not-found record with placeholder price    *)
(* and currency; the latest-value scrape of the page is not used, whatever *)
(* the page shows.                                                         *)
(***************************************************************************)
RowsParsed == CsvParsed /\ asked.csvr.csv.rows # <<>>

\* row i comes after the header and its date cell is the target date
DatedRowAt(all_rows, i, d) ==
    /\ i > HeaderIdx(all_rows)
    /\ Len(all_rows[i]) >= DateCol(all_rows)
    /\ Len(all_rows[i]) >= NavCol(all_rows)
    /\ Strip(all_rows[i][DateCol(all_rows)]) \in {StrftimeSlash(d), StrftimeKanji(d)}
DatedRows(all_rows, d) == {i \in 1..Len(all_rows) : DatedRowAt(all_rows, i, d)}

DateNotFoundRecord ==
    ErrorDict(FundName(asked.page.soup, call.code), DASH, DASH, MsgDateNotFound(target_date))

C23_NoRowNoFallback ==
    RowsParsed =>
        LET all_rows == asked.csvr.csv.rows
            hits == NavRows(all_rows, target_date)
        IN  /\ ret.k = "dict"
            /\ trace = <<[adapter |-> FundAdapter,
                          reqs |-> <<Req("page", "response", 200), Req("csv", "response", 200)>>,
                          out |-> "return", gave |-> Some(ret.v), slept |-> FALSE]>>
            /\ ret.v.price # DASH =>
                /\ hits # {}
                /\ ret.v.price =
                    InAscii(NavDigits(FirstNavRow(all_rows, target_date)[NavCol(all_rows)]))
                /\ ~HasError(ret.v)
            /\ hits = {} =>
                /\ ret.v = DateNotFoundRecord
                /\ ret.v # LatestValueScrape
                /\ ret.v.price = DASH /\ ret.v.currency = DASH
                /\ ret.v.error # MsgLatestNav /\ ret.v.error # MsgNavFailed

\* the only dated row has the NAV N/A, while the page shows 12,345: the adapter
\* reports the date as not found
C23_Witness ==
    /\ RowsParsed
    /\ DatedRows(asked.csvr.csv.rows, target_date) # {}
    /\ NavRows(asked.csvr.csv.rows, target_date) = {}
    /\ asked.page.soup.nav1 = <<<<"1", "2", ",", "3", "4", "5">>>>
    /\ LatestValueScrape.price = <<"1", "2", "3", "4", "5">>
    /\ ret.v = DateNotFoundRecord

\* no row of the table bears the target date
C23_WitnessDateAbsent ==
    /\ RowsParsed
    /\ DatedRows(asked.csvr.csv.rows, target_date) = {}
    /\ asked.page.soup.nav1 = <<<<"1", "2", ",", "3", "4", "5">>>>
    /\ ret.v = DateNotFoundRecord

(***************************************************************************)
(* C24: one run of the mutual-fund adapter makes at most one request for   *)
(* the detail page and then at most one request for the download, in that  *)
(* order.  The download is requested only after the page answered 200 and  *)
(* an association code was read from it, and nothing is requested after    *)
(* the download, also when the adapter falls back to the latest-value      *)
(* scrape or the download fails.                                           *)
(***************************************************************************)
FundAdapterRan == op = "fetch_price" /\ asked.k = "fund" /\ trace # <<>>

\* how many requests of one kind a run made
CountReq(reqs, kind) == Cardinality({i \in 1..Len(reqs) : reqs[i].req = kind})

C24_PageThenCsv ==
    FundAdapterRan =>
        LET reqs == trace[1].reqs
        IN  /\ Len(trace) = 1
            /\ trace[1].adapter = FundAdapter
            /\ CountReq(reqs, "page") <= 1
            /\ CountReq(reqs, "csv") <= 1
            /\ Len(reqs) = CountReq(reqs, "page") + CountReq(reqs, "csv")
            /\ \A i \in 1..Len(reqs) : reqs[i].req = "csv" =>
                /\ i = 2
                /\ i = Len(reqs)
                /\ reqs[1] = Req("page", "response", 200)
                /\ asked.page.k = "response" /\ asked.page.status = 200
                /\ AssocFundCd(asked.page.soup) # None
            /\ (reqs # <<>>) = IsinShape(call.code)
            /\ reqs # <<>> => reqs[1] = HttpReq("page", asked.page)
            /\ Len(reqs) = 2 => reqs[2] = HttpReq("csv", asked.csvr)
            /\ Len(reqs) < 2 => asked.csvr = NoCsv

\* the download answers 404 and the adapter falls back to the scrape of the
\* page it already has: two requests, the download last
C24_Witness ==
    /\ FundAdapterRan
    /\ trace[1].reqs = <<Req("page", "response", 200), Req("csv", "response", 404)>>
    /\ trace[1].out = "return"
    /\ ret.v = LatestValueScrape

\* the page answers 200 without an association code: one request
C24_WitnessPageOnly ==
    /\ FundAdapterRan
    /\ NoAssocCode
    /\ trace[1].reqs = <<Req("page", "response", 200)>>

\* the page does not answer 200: one request
C24_WitnessPageRefused ==
    /\ FundAdapterRan
    /\ asked.page.k = "response" /\ asked.page.status # 200
    /\ Len(trace[1].reqs) = 1

\* the download times out: two requests
C24_WitnessCsvTimeout ==
    /\ FundAdapterRan
    /\ Len(trace[1].reqs) = 2
    /\ trace[1].reqs[2].res = "Timeout"
    /\ ret.v.error = MsgTimeout

====
